---- MODULE Spec2Model ----
(***************************************************************************)
(* griffin kernel: physical frame allocator (arch/x86_64/mm/pmm.rs), its   *)
(* bitmap (utils/bitmap.rs) and the virtual memory manager (mm/vmm.rs).    *)
(*                                                                         *)
(* A 64-bit value (u64 address, page-table entry) is the set of its set    *)
(* bit positions, a subset of 0..63: | is union, & is intersection, ! is   *)
(* the complement in 0..63.  A byte of the bitmap is a number 0..255.      *)
(* Physical memory is an array of frames; a frame holds 512 u64 cells and  *)
(* is the function from the indices of its non-zero cells to their values. *)
(***************************************************************************)
EXTENDS Integers, Sequences, FiniteSets, TLC

VARIABLES bitmap,     \* Pmm.0: the bytes of the frame bitmap, index 0..size-1
          mem,        \* physical memory: frame number -> non-zero cells
          live,       \* allocations handed out and not yet freed: <<page, pages>>
          run,        \* allocations returned since the last free
          initFree,   \* the frames pmm::init marked free
          last,       \* the last completed call: operation, arguments, result
          panicked,   \* a panic!/expect failed: the kernel halted
          rt,         \* a caller running alloc(k); free(a, k); alloc(k)
          lock,       \* the spin::Mutex of Pmm: TRUE while held (slab calls: the Slabs
                      \* whose bitmap Mutex is held)
          ctx,        \* execution contexts inside Pmm::alloc or Cache::alloc_obj: pc and locals
          pagemap,    \* VirtualMemManager.pagemap: physical address of the PML4
          ranges,     \* VirtualMemManager.ranges: Vec<VirtMemoryRange>
          ops,        \* calls made on the address space so far
          intr,       \* RFLAGS.IF as the page-fault handler last left it
          halted,     \* cpu::halt() was reached: the processor sits in hlt
          reads,      \* the file reads the page-fault handler issued, in order
          cache,      \* one slab Cache: object_size, pages_per_slab, slab_count, slabs
          slabs,      \* the Slabs of the cache, by the order of their creation
          held,       \* the pointers alloc_obj returned and free_obj has not taken back
          frees,      \* free_obj calls made so far
          caches,     \* SLAB_ALLOCATOR.caches: the list of Caches, head first
          memmap      \* the bootloader's memory map entries, as pmm::init left them

pmmVars == <<bitmap, mem, live, run, initFree, last, panicked, memmap>>
\* what the allocator's own calls leave alone
callerVars == <<rt, lock, ctx>>
faultVars == <<intr, halted, reads>>
vmmVars == <<pagemap, ranges, ops, faultVars>>
slabVars == <<cache, slabs, held, frees, caches>>
vars == <<pmmVars, callerVars, vmmVars, slabVars>>

----------------------------------------------------------------------------
(* Bounds *)

\* number of physical frames below the highest usable address of the memory map
MemFrames == 5
\* the same, where the contents of the frames are followed as well
DataFrames == 4
\* the same, under an address space whose page tables are followed
VmmFrames == 6
\* calls made on one address space
MaxVmmOps == 2
\* page faults taken on one address space
MaxFaults == 3
\* physical frames under the address space the faults are taken on
FaultFrames == 7
\* physical frames the slab cache takes its pages from
SlabFrames == 6
\* free_obj calls made on the cache
MaxSlabFrees == 1
\* frames described by the memory maps pmm::init is run on
MapFrames == 12
\* free calls made with arbitrary arguments
MaxFrees == 2
\* largest frame count a caller asks alloc/calloc for
MaxPages == 2
\* largest number of allocations held at once
MaxLive == 2

----------------------------------------------------------------------------
(* Program constants *)

PAGE_SIZE == 4096
\* u64 cells per frame
CellsPerFrame == PAGE_SIZE \div 8
\* 0xffff800000000000: bits 47..63
PHYS_BASE == 47..63
AllBits == 0..63

----------------------------------------------------------------------------
(* Option<T> *)

None == <<>>
Some(x) == <<x>>
IsSome(o) == Len(o) = 1
Unwrap(o) == o[1]

\* `let v = x;` followed by F(v): x is computed once
Then(x, F(_)) == CHOOSE r \in {F(v) : v \in {x}} : TRUE

----------------------------------------------------------------------------
(* u64 values as bit sets *)

RECURSIVE BitsOfNat(_, _)
BitsOfNat(n, pos) ==
    IF n = 0 THEN {}
    ELSE (IF n % 2 = 1 THEN {pos} ELSE {}) \cup BitsOfNat(n \div 2, pos + 1)

\* the u64 with value n
Word(n) == BitsOfNat(n, 0)

RECURSIVE SumPow(_)
SumPow(w) ==
    IF w = {} THEN 0
    ELSE LET b == CHOOSE x \in w : TRUE IN 2^b + SumPow(w \ {b})

\* the value of a u64 that fits the checker's integers (bits below 30)
Small(w) == \A b \in w : b < 30
Value(w) == SumPow(w)

ShiftRight(w, n) == {b - n : b \in {x \in w : x >= n}}
ShiftLeft(w, n) == {b + n : b \in {x \in w : x + n <= 63}}

\* utils/math.rs
div_ceil(x, y) == (x + y - 1) \div y

----------------------------------------------------------------------------
(* PhysAddr *)

PhysAddrNew(n) == Word(n)
higher_half(a) == a \cup PHYS_BASE
lower_half(a) == a \ PHYS_BASE
\* & 0x000ffffffffff000
remove_flags(a) == a \cap (12..51)

----------------------------------------------------------------------------
(* u8 arithmetic of the bitmap *)

RECURSIVE ByteAnd(_, _)
ByteAnd(a, b) ==
    IF a = 0 \/ b = 0 THEN 0
    ELSE (a % 2) * (b % 2) + 2 * ByteAnd(a \div 2, b \div 2)

RECURSIVE ByteOr(_, _)
ByteOr(a, b) ==
    IF a = 0 THEN b
    ELSE IF b = 0 THEN a
    ELSE (IF a % 2 = 1 \/ b % 2 = 1 THEN 1 ELSE 0) + 2 * ByteOr(a \div 2, b \div 2)

RECURSIVE ByteXor(_, _)
ByteXor(a, b) ==
    IF a = 0 THEN b
    ELSE IF b = 0 THEN a
    ELSE ((a + b) % 2) + 2 * ByteXor(a \div 2, b \div 2)

ByteNot(a) == 255 - a

\* 1 << (bit % 8)
BitMask(bit) == 2^(bit % 8)

----------------------------------------------------------------------------
(* Bitmap (utils/bitmap.rs) *)

BitmapSize(bm) == Cardinality(DOMAIN bm)

\* an index check that lets the byte behind the slice through
BitmapInRangeLoose(bm, bit) == bit \div 8 \in 0..Cardinality(DOMAIN bm)

\* slice indexing self.0[bit / 8] is bounds-checked: out of range panics
BitmapInRange(bm, bit) == bit \div 8 \in DOMAIN bm

BitmapSet(bm, bit) ==
    [bm EXCEPT ![bit \div 8] = ByteOr(@, BitMask(bit))]

BitmapToggle(bm, bit) ==
    [bm EXCEPT ![bit \div 8] = ByteXor(@, BitMask(bit))]

\* clear without the ! of the mask
BitmapClearNoNot(bm, bit) ==
    [bm EXCEPT ![bit \div 8] = ByteAnd(@, BitMask(bit))]

BitmapClear(bm, bit) ==
    [bm EXCEPT ![bit \div 8] = ByteAnd(@, ByteNot(BitMask(bit)))]

BitmapIsSet(bm, bit) ==
    ByteAnd(bm[bit \div 8], BitMask(bit)) # 0

\* bit `f` of the bitmap bytes, read arithmetically
BitOf(bm, f) == (bm[f \div 8] \div 2^(f % 8)) % 2 = 1
BitCount(bm) == 8 * Cardinality(DOMAIN bm)
FreeFrames(bm) == {f \in 0..(BitCount(bm) - 1) : BitOf(bm, f)}

----------------------------------------------------------------------------
(* Physical memory *)

ZeroFrame == [c \in {} |-> {}]
\* a frame holding non-zero data: cell 0 reads 1
DirtyFrame == [c \in {0} |-> {0}]

FrameIsZero(m, f) == DOMAIN m[f] = {}

\* The address space the bootloader hands over maps physical memory at
\* virtual address 0 (identity) and again at PHYS_BASE.
BootTranslate(v) == IF PHYS_BASE \subseteq v THEN v \ PHYS_BASE ELSE v

\* ptr.write_bytes(0, count): every cell wholly inside [ptr, ptr + count)
WriteBytesZero(m, ptr, count) ==
    LET base == Value(BootTranslate(ptr))
        Hit(f, c) == /\ base <= f * PAGE_SIZE + c * 8
                     /\ f * PAGE_SIZE + c * 8 + 8 <= base + count
    IN  [f \in DOMAIN m |->
            LET keep == {c \in DOMAIN m[f] : ~Hit(f, c)}
            IN  [c \in keep |-> m[f][c]]]

----------------------------------------------------------------------------
(* Pmm (arch/x86_64/mm/pmm.rs) *)

\* ClearRange stopping one frame early
RECURSIVE ClearRangeShort(_, _, _)
ClearRangeShort(bm, p, end) ==
    IF p >= end - 1 THEN bm ELSE ClearRangeShort(BitmapClear(bm, p), p + 1, end)

\* for p in page..page + pages { bitmap.clear(p) }: the iterations p..end-1,
\* as the first half of them followed by the second half
RECURSIVE ClearRange(_, _, _)
ClearRange(bm, p, end) ==
    IF p >= end THEN bm
    ELSE IF end = p + 1 THEN BitmapClear(bm, p)
    ELSE Then(ClearRange(bm, p, (p + end) \div 2), LAMBDA b :
              ClearRange(b, (p + end) \div 2, end))

\* AllocScan without `count = 0` on a clear bit
RECURSIVE AllocScanNoReset(_, _, _, _)
AllocScanNoReset(bm, pages, i, count) ==
    IF i >= BitmapSize(bm) * 8 THEN [ret |-> None, bitmap |-> bm]
    ELSE IF BitmapIsSet(bm, i)
         THEN IF count + 1 = pages
              THEN LET page == i - pages + 1
                   IN  [ret |-> Some(PhysAddrNew(page * PAGE_SIZE)),
                        bitmap |-> ClearRange(bm, page, page + pages)]
              ELSE AllocScanNoReset(bm, pages, i + 1, count + 1)
         ELSE AllocScanNoReset(bm, pages, i + 1, count)

\* one iteration of the scan loop of Pmm::alloc, at index i with `count` set
\* bits behind it: the new count, and the first page of the run once
\* count == pages
ScanStep(bm, pages, i, count) ==
    IF BitmapIsSet(bm, i)
    THEN IF count + 1 = pages
         THEN [found |-> TRUE, count |-> count + 1, page |-> i - pages + 1]
         ELSE [found |-> FALSE, count |-> count + 1, page |-> 0]
    ELSE [found |-> FALSE, count |-> 0, page |-> 0]

\* the iterations lo..hi-1 of the scan loop, as the first half of them
\* followed by the second half; the loop is left once the run is found
RECURSIVE ScanLoop(_, _, _, _, _)
ScanLoop(bm, pages, st, lo, hi) ==
    IF st.found \/ lo >= hi THEN st
    ELSE IF hi = lo + 1 THEN ScanStep(bm, pages, lo, st.count)
    ELSE Then(ScanLoop(bm, pages, st, lo, (lo + hi) \div 2), LAMBDA s :
              ScanLoop(bm, pages, s, (lo + hi) \div 2, hi))

\* the scan loop of Pmm::alloc, from index i with `count` set bits behind it
AllocScan(bm, pages, i, count) ==
    Then(ScanLoop(bm, pages, [found |-> FALSE, count |-> count, page |-> 0],
                  i, BitmapSize(bm) * 8), LAMBDA s :
        IF s.found
        THEN [ret |-> Some(PhysAddrNew(s.page * PAGE_SIZE)),
              bitmap |-> ClearRange(bm, s.page, s.page + pages)]
        ELSE [ret |-> None, bitmap |-> bm])

\* alloc comparing `count` with `pages` before counting the current bit
RECURSIVE AllocScanLate(_, _, _, _)
AllocScanLate(bm, pages, i, count) ==
    IF i >= BitmapSize(bm) * 8 THEN [ret |-> None, bitmap |-> bm]
    ELSE IF BitmapIsSet(bm, i)
         THEN IF count = pages
              THEN LET page == i - pages
                   IN  [ret |-> Some(PhysAddrNew(page * PAGE_SIZE)),
                        bitmap |-> ClearRange(bm, page, page + pages)]
              ELSE AllocScanLate(bm, pages, i + 1, count + 1)
         ELSE AllocScanLate(bm, pages, i + 1, 0)
PmmAllocLate(bm, pages) == AllocScanLate(bm, pages, 0, 0)

PmmAlloc(bm, pages) == AllocScan(bm, pages, 0, 0)

\* calloc zeroing one page whatever `pages` is
PmmCallocOnePage(bm, m, pages) ==
    LET a == PmmAlloc(bm, pages)
    IN  IF IsSome(a.ret)
        THEN [ret |-> a.ret, bitmap |-> a.bitmap,
              mem |-> WriteBytesZero(m, Unwrap(a.ret), PAGE_SIZE)]
        ELSE [ret |-> None, bitmap |-> a.bitmap, mem |-> m]

PmmCalloc(bm, m, pages) ==
    LET a == PmmAlloc(bm, pages)
    IN  IF IsSome(a.ret)
        THEN [ret |-> a.ret, bitmap |-> a.bitmap,
              mem |-> WriteBytesZero(m, Unwrap(a.ret), pages * PAGE_SIZE)]
        ELSE [ret |-> None, bitmap |-> a.bitmap, mem |-> m]

\* a frame number no bitmap of the model reaches
Huge == 2^30

\* FreePage without the & !PHYS_BASE
FreePageNoMask(ptr) ==
    LET w == ShiftRight(ptr, 12)
    IN  IF Small(w) THEN Value(w) ELSE Huge

\* (ptr as u64 & !PHYS_BASE) / PAGE_SIZE
FreePage(ptr) ==
    LET w == ShiftRight(ptr \ PHYS_BASE, 12)
    IN  IF Small(w) THEN Value(w) ELSE Huge

\* SetRange stopping one frame early
RECURSIVE SetRangeShort(_, _, _)
SetRangeShort(bm, i, end) ==
    IF i >= end - 1 THEN [bitmap |-> bm, panic |-> FALSE]
    ELSE IF ~BitmapInRange(bm, i) THEN [bitmap |-> bm, panic |-> TRUE]
    ELSE SetRangeShort(BitmapSet(bm, i), i + 1, end)

\* for i in page..page + pages_amnt { bitmap.set(i) }: the first index outside
\* the slice panics, the bits set before it stay set
RECURSIVE SetRange(_, _, _)
SetRange(bm, i, end) ==
    IF i >= end THEN [bitmap |-> bm, panic |-> FALSE]
    ELSE IF ~BitmapInRange(bm, i) THEN [bitmap |-> bm, panic |-> TRUE]
    ELSE SetRange(BitmapSet(bm, i), i + 1, end)

\* a free that refuses frames that are free already
PmmFreeChecked(bm, ptr, pages_amnt) ==
    LET page == FreePage(ptr)
        already == \E f \in page..(page + pages_amnt - 1) :
                        BitmapInRange(bm, f) /\ BitmapIsSet(bm, f)
    IN  IF already THEN [bitmap |-> bm, panic |-> TRUE]
        ELSE SetRange(bm, page, page + pages_amnt)

PmmFree(bm, ptr, pages_amnt) ==
    LET page == FreePage(ptr)
    IN  SetRange(bm, page, page + pages_amnt)

\* pmm::init: a zeroed bitmap of div_ceil(frames, 8) bytes, then the bit of
\* every frame of a usable region set
RECURSIVE SetFrames(_, _)
SetFrames(bm, frames) ==
    IF frames = {} THEN bm
    ELSE LET lo == CHOOSE x \in frames : \A y \in frames : x <= y
             hi == CHOOSE x \in frames : \A y \in frames : y <= x
             mid == (lo + hi) \div 2
         IN  IF lo = hi THEN BitmapSet(bm, lo)
             ELSE Then(SetFrames(bm, {x \in frames : x <= mid}), LAMBDA b :
                       SetFrames(b, {x \in frames : x > mid}))

PmmInit(frames, usable) ==
    SetFrames([b \in 0..(div_ceil(frames, 8) - 1) |-> 0], usable)

----------------------------------------------------------------------------
(* The allocator driven by its callers *)

\* no context is inside the allocator
NoContext == [c \in {} |-> 0]
\* no address space has been created
NoFault == intr = TRUE /\ halted = FALSE /\ reads = <<>>
\* no slab cache has been created
NoSlab == cache = <<>> /\ slabs = <<>> /\ held = <<>> /\ frees = 0 /\ caches = <<>>
NoVmm == pagemap = {} /\ ranges = <<>> /\ ops = 0 /\ NoFault /\ NoSlab

PageOf(addr) == Value(addr) \div PAGE_SIZE
FramesOf(page, pages) == page..(page + pages - 1)
LiveFrames == UNION {FramesOf(a[1], a[2]) : a \in live}

Call(op, pages, arg, ret) == [op |-> op, pages |-> pages, arg |-> arg, ret |-> ret]

Init ==
    /\ initFree \in SUBSET (0..(MemFrames - 1))
    /\ bitmap = PmmInit(MemFrames, initFree)
    /\ mem = [f \in 0..(MemFrames - 1) |-> ZeroFrame]
    /\ live = {}
    /\ run = {}
    /\ memmap = <<>>
    /\ last = Call("init", 0, None, None)
    /\ panicked = FALSE
    /\ rt = [pc |-> "off"]
    /\ lock = FALSE
    /\ ctx = NoContext
    /\ NoVmm

Alloc(pages) ==
    LET r == PmmAlloc(bitmap, pages)
    IN  /\ ~panicked
        /\ IsSome(r.ret) => Cardinality(live) < MaxLive
        /\ bitmap' = r.bitmap
        /\ last' = Call("alloc", pages, None, r.ret)
        /\ IF IsSome(r.ret)
           THEN /\ live' = live \cup {<<PageOf(Unwrap(r.ret)), pages>>}
                /\ run' = run \cup {<<PageOf(Unwrap(r.ret)), pages>>}
           ELSE UNCHANGED <<live, run>>
        /\ UNCHANGED <<mem, initFree, memmap, panicked, callerVars, vmmVars, slabVars>>

Calloc(pages) ==
    LET r == PmmCalloc(bitmap, mem, pages)
    IN  /\ ~panicked
        /\ IsSome(r.ret) => Cardinality(live) < MaxLive
        /\ bitmap' = r.bitmap
        /\ mem' = r.mem
        /\ last' = Call("calloc", pages, None, r.ret)
        /\ IF IsSome(r.ret)
           THEN /\ live' = live \cup {<<PageOf(Unwrap(r.ret)), pages>>}
                /\ run' = run \cup {<<PageOf(Unwrap(r.ret)), pages>>}
           ELSE UNCHANGED <<live, run>>
        /\ UNCHANGED <<initFree, memmap, panicked, callerVars, vmmVars, slabVars>>

\* a caller gives an allocation back, through the physical address or through
\* its higher-half alias
Free(a, alias) ==
    LET addr == PhysAddrNew(a[1] * PAGE_SIZE)
        ptr == IF alias THEN higher_half(addr) ELSE addr
        r == PmmFree(bitmap, ptr, a[2])
    IN  /\ ~panicked
        /\ a \in live
        /\ bitmap' = r.bitmap
        /\ panicked' = r.panic
        /\ live' = live \ {a}
        /\ run' = {}
        /\ last' = Call("free", a[2], Some(ptr), None)
        /\ UNCHANGED <<mem, initFree, memmap, callerVars, vmmVars, slabVars>>

\* the owner of a live allocation stores data in one of its frames
Write(f) ==
    /\ ~panicked
    /\ f \in LiveFrames
    /\ mem' = [mem EXCEPT ![f] = DirtyFrame]
    /\ last' = Call("write", 0, None, None)
    /\ UNCHANGED <<bitmap, live, run, initFree, memmap, panicked, callerVars, vmmVars, slabVars>>

Next ==
    \/ \E pages \in 0..MaxPages : Alloc(pages)
    \/ \E pages \in 0..MaxPages : Calloc(pages)
    \/ \E a \in live, alias \in BOOLEAN : Free(a, alias)

Spec == Init /\ [][Next]_vars
----------------------------------------------------------------------------
(* The allocator over memory that holds data: callers write to the frames   *)
(* they own, and RAM is not zero at boot.                                   *)

AllFrames == 0..(MemFrames - 1)
\* memory maps: one usable region; two usable regions around a reserved frame
MemRegions == {0..(DataFrames - 1), (0..(DataFrames - 1)) \ {1}}

InitMem ==
    /\ initFree \in MemRegions
    /\ bitmap = PmmInit(DataFrames, initFree)
    /\ mem = [f \in 0..(DataFrames - 1) |-> DirtyFrame]
    /\ live = {}
    /\ run = {}
    /\ memmap = <<>>
    /\ last = Call("init", 0, None, None)
    /\ panicked = FALSE
    /\ rt = [pc |-> "off"]
    /\ lock = FALSE
    /\ ctx = NoContext
    /\ NoVmm

\* the owners reach their frames, and free them, through the higher-half alias
NextMem ==
    \/ \E pages \in 1..MaxPages : Alloc(pages)
    \/ \E pages \in 1..MaxPages : Calloc(pages)
    \/ \E a \in live : Free(a, TRUE)
    \/ \E f \in DOMAIN mem : Write(f)

SpecMem == InitMem /\ [][NextMem]_vars

----------------------------------------------------------------------------
(* A caller that allocates, frees at once and allocates again *)

InitRt ==
    /\ initFree \in SUBSET AllFrames
    /\ bitmap = PmmInit(MemFrames, initFree)
    /\ mem = [f \in AllFrames |-> ZeroFrame]
    /\ live = {}
    /\ run = {}
    /\ memmap = <<>>
    /\ last = Call("init", 0, None, None)
    /\ panicked = FALSE
    /\ \E k \in 1..MaxPages, alias \in BOOLEAN :
          rt = [pc |-> "start", k |-> k, alias |-> alias,
                a |-> None, before |-> bitmap]
    /\ lock = FALSE
    /\ ctx = NoContext
    /\ NoVmm

\* let a = alloc(k)
RtAlloc ==
    LET r == PmmAlloc(bitmap, rt.k)
    IN  /\ rt.pc = "start"
        /\ bitmap' = r.bitmap
        /\ last' = Call("alloc", rt.k, None, r.ret)
        /\ rt' = [rt EXCEPT !.pc = IF IsSome(r.ret) THEN "allocated" ELSE "failed",
                            !.a = r.ret, !.before = bitmap]
        /\ live' = IF IsSome(r.ret) THEN {<<PageOf(Unwrap(r.ret)), rt.k>>} ELSE {}
        /\ run' = live'
        /\ UNCHANGED <<mem, initFree, memmap, panicked, lock, ctx, vmmVars, slabVars>>

\* free(a, k), through the address alloc returned or its higher-half alias
RtFree ==
    LET ptr == IF rt.alias THEN higher_half(Unwrap(rt.a)) ELSE Unwrap(rt.a)
        r == PmmFree(bitmap, ptr, rt.k)
    IN  /\ rt.pc = "allocated"
        /\ bitmap' = r.bitmap
        /\ panicked' = r.panic
        /\ last' = Call("free", rt.k, Some(ptr), None)
        /\ rt' = [rt EXCEPT !.pc = IF r.panic THEN "failed" ELSE "freed"]
        /\ live' = {}
        /\ run' = {}
        /\ UNCHANGED <<mem, initFree, memmap, lock, ctx, vmmVars, slabVars>>

\* alloc(k) again
RtRealloc ==
    LET r == PmmAlloc(bitmap, rt.k)
    IN  /\ rt.pc = "freed"
        /\ bitmap' = r.bitmap
        /\ last' = Call("alloc", rt.k, None, r.ret)
        /\ rt' = [rt EXCEPT !.pc = "done"]
        /\ live' = IF IsSome(r.ret) THEN {<<PageOf(Unwrap(r.ret)), rt.k>>} ELSE {}
        /\ run' = live'
        /\ UNCHANGED <<mem, initFree, memmap, panicked, lock, ctx, vmmVars, slabVars>>

NextRt == RtAlloc \/ RtFree \/ RtRealloc

SpecRt == InitRt /\ [][NextRt]_vars

----------------------------------------------------------------------------
(* Bitmap operations on their own: one call on a bitmap wrapped by         *)
(* Bitmap::from_raw_ptr around arbitrary bytes                             *)

\* bytes of the wrapped slice
BitmapBytes == 2
ByteSamples == {0, 255, 165, 90}
BitOps == {"set", "clear", "toggle", "is_set"}

InitBitmap ==
    /\ bitmap \in [0..(BitmapBytes - 1) -> ByteSamples]
    /\ mem = [f \in {} |-> ZeroFrame]
    /\ initFree = {}
    /\ live = {}
    /\ run = {}
    /\ memmap = <<>>
    /\ last = Call("init", 0, None, None)
    /\ panicked = FALSE
    /\ rt = [pc |-> "off"]
    /\ lock = FALSE
    /\ ctx = NoContext
    /\ NoVmm

BitmapApply(bm, op, bit) ==
    CASE op = "set" -> BitmapSet(bm, bit)
      [] op = "clear" -> BitmapClear(bm, bit)
      [] op = "toggle" -> BitmapToggle(bm, bit)
      [] op = "is_set" -> bm

\* one call with an index inside the slice
BitmapCall(op, bit) ==
    /\ last.op = "init"
    /\ BitmapInRange(bitmap, bit)
    /\ bitmap' = BitmapApply(bitmap, op, bit)
    /\ last' = Call(op, 0, Some(bit),
                    IF op = "is_set" THEN Some(BitmapIsSet(bitmap, bit)) ELSE None)
    /\ UNCHANGED <<mem, live, run, initFree, memmap, panicked, callerVars, vmmVars, slabVars>>

\* one call with an index past the slice: the indexing panics
BitmapCallOutside(op, bit) ==
    /\ last.op = "init"
    /\ ~BitmapInRange(bitmap, bit)
    /\ panicked' = TRUE
    /\ last' = Call(op, 0, Some(bit), None)
    /\ UNCHANGED <<bitmap, mem, live, run, initFree, memmap, callerVars, vmmVars, slabVars>>

NextBitmap ==
    \/ \E op \in BitOps, bit \in 0..(8 * BitmapBytes - 1) : BitmapCall(op, bit)
    \/ \E op \in BitOps, bit \in (8 * BitmapBytes)..(8 * BitmapBytes + 1) :
          BitmapCallOutside(op, bit)

SpecBitmap == InitBitmap /\ [][NextBitmap]_vars

----------------------------------------------------------------------------
(* The same slice with the byte that follows it in memory: calls with an    *)
(* index on either side of the end of the slice                             *)

\* the bytes at the address of the slice: the slice, then the byte behind it
SliceWith(bm, behind) ==
    [i \in 0..BitmapSize(bm) |-> IF i < BitmapSize(bm) THEN bm[i] ELSE behind]

\* set / clear / toggle / is_set (bit): self.0[bit / 8] panics past the slice,
\* before anything is read or written
BitmapOp(bm, behind, op, bit) ==
    IF ~BitmapInRange(bm, bit)
    THEN [panic |-> TRUE, bitmap |-> bm, behind |-> behind, ret |-> None]
    ELSE LET raw == SliceWith(bm, behind)
             out == BitmapApply(raw, op, bit)
         IN  [panic |-> FALSE,
              bitmap |-> [i \in DOMAIN bm |-> out[i]],
              behind |-> out[BitmapSize(bm)],
              ret |-> IF op = "is_set" THEN Some(BitmapIsSet(raw, bit)) ELSE None]

\* Pmm::free on that slice: for i in page..page + pages_amnt { bitmap.set(i) }
RECURSIVE SetRangeRaw(_, _, _, _)
SetRangeRaw(bm, behind, i, end) ==
    IF i >= end THEN [panic |-> FALSE, bitmap |-> bm, behind |-> behind]
    ELSE LET r == BitmapOp(bm, behind, "set", i)
         IN  IF r.panic THEN [panic |-> TRUE, bitmap |-> r.bitmap, behind |-> r.behind]
             ELSE SetRangeRaw(r.bitmap, r.behind, i + 1, end)

PmmFreeRaw(bm, behind, ptr, pages_amnt) ==
    LET page == FreePage(ptr)
    IN  SetRangeRaw(bm, behind, page, page + pages_amnt)

InitEdge ==
    /\ bitmap \in [0..(BitmapBytes - 1) -> ByteSamples]
    /\ mem = [f \in {} |-> ZeroFrame]
    /\ initFree = {}
    /\ live = {}
    /\ run = {}
    /\ memmap = <<>>
    /\ last = Call("init", 0, None, None)
    /\ panicked = FALSE
    /\ rt \in [pc : {"slice"}, behind : ByteSamples]
    /\ lock = FALSE
    /\ ctx = NoContext
    /\ NoVmm

\* one call of a Bitmap method
EdgeCall(op, bit) ==
    /\ last.op = "init"
    /\ \E r \in {BitmapOp(bitmap, rt.behind, op, bit)} :
        /\ bitmap' = r.bitmap
        /\ rt' = [rt EXCEPT !.behind = r.behind]
        /\ panicked' = r.panic
        /\ last' = Call(op, 0, Some(bit), r.ret)
    /\ UNCHANGED <<mem, live, run, initFree, memmap, lock, ctx, vmmVars, slabVars>>

\* one call of Pmm::free on a Pmm that wraps the slice
EdgeFree(page, pages_amnt, alias) ==
    LET addr == PhysAddrNew(page * PAGE_SIZE)
        ptr == IF alias THEN higher_half(addr) ELSE addr
    IN  /\ last.op = "init"
        /\ \E r \in {PmmFreeRaw(bitmap, rt.behind, ptr, pages_amnt)} :
            /\ bitmap' = r.bitmap
            /\ rt' = [rt EXCEPT !.behind = r.behind]
            /\ panicked' = r.panic
        /\ last' = Call("free", pages_amnt, Some(ptr), None)
        /\ UNCHANGED <<mem, live, run, initFree, memmap, lock, ctx, vmmVars, slabVars>>

NextEdge ==
    \/ \E op \in BitOps, bit \in 0..(8 * BitmapBytes + 15) : EdgeCall(op, bit)
    \/ \E page \in 0..(8 * BitmapBytes + 1), pages_amnt \in 0..MaxPages, alias \in BOOLEAN :
          EdgeFree(page, pages_amnt, alias)

SpecEdge == InitEdge /\ [][NextEdge]_vars

----------------------------------------------------------------------------
(* Two contexts inside Pmm::alloc at once, one statement at a time.  The    *)
(* second context is another processor, or (sameCore) an interrupt handler  *)
(* that preempted the first on its processor and runs until it returns.     *)

Contexts == {"task", "irq"}

Idle(k) == [pc |-> "call", pages |-> k, i |-> 0, count |-> 0, page |-> 0, p |-> 0,
            ret |-> None]

InitConc ==
    /\ initFree \in SUBSET (0..(DataFrames - 1))
    /\ bitmap = PmmInit(DataFrames, initFree)
    /\ mem = [f \in 0..(DataFrames - 1) |-> ZeroFrame]
    /\ live = {}
    /\ run = {}
    /\ memmap = <<>>
    /\ last = Call("init", 0, None, None)
    /\ panicked = FALSE
    /\ \E sameCore \in BOOLEAN : rt = [pc |-> "off", sameCore |-> sameCore]
    /\ lock = FALSE
    /\ ctx \in [Contexts -> {Idle(k) : k \in 1..MaxPages}]
    /\ NoVmm

\* the interrupt handler has started and not returned: the task it preempted
\* does not run
Preempted(c) == c = "task" /\ rt.sameCore /\ ctx["irq"].pc \notin {"call", "done"}

Runs(c, pc) == ctx[c].pc = pc /\ ~Preempted(c)

\* spin::Mutex::lock: compare-exchange of the flag from false to true
MutexTryLockBroken(l) == [ok |-> TRUE, lock |-> TRUE]
MutexTryLock(l) == [ok |-> l = FALSE, lock |-> TRUE]

\* the context calls alloc(pages): on the same core, the handler is entered
\* between two statements of the task
AllocCall(c) ==
    /\ Runs(c, "call")
    /\ ctx' = [ctx EXCEPT ![c].pc = "lock"]
    /\ UNCHANGED <<pmmVars, rt, lock, vmmVars, slabVars>>

\* let mut bitmap = self.0.lock(); let mut count = 0;  (spins while held)
AllocLock(c) ==
    /\ Runs(c, "lock")
    /\ MutexTryLock(lock).ok
    /\ lock' = MutexTryLock(lock).lock
    /\ ctx' = [ctx EXCEPT ![c].pc = "scan", ![c].i = 0, ![c].count = 0]
    /\ UNCHANGED <<pmmVars, rt, vmmVars, slabVars>>

\* one iteration of for i in 0..bitmap.size() * 8
AllocScanStep(c) ==
    LET l == ctx[c] IN
    /\ Runs(c, "scan")
    /\ ctx' = [ctx EXCEPT ![c] =
                 IF l.i >= BitmapSize(bitmap) * 8
                 THEN [l EXCEPT !.pc = "unlock", !.ret = None]
                 ELSE IF BitmapIsSet(bitmap, l.i)
                      THEN IF l.count + 1 = l.pages
                           THEN [l EXCEPT !.pc = "clear", !.count = l.count + 1,
                                          !.page = l.i - l.pages + 1,
                                          !.p = l.i - l.pages + 1]
                           ELSE [l EXCEPT !.i = l.i + 1, !.count = l.count + 1]
                      ELSE [l EXCEPT !.i = l.i + 1, !.count = 0]]
    /\ UNCHANGED <<pmmVars, rt, lock, vmmVars, slabVars>>

\* one iteration of for p in page..page + pages { bitmap.clear(p) }, then
\* return Some(PhysAddr::new(page * PAGE_SIZE))
AllocClearStep(c) ==
    LET l == ctx[c] IN
    /\ Runs(c, "clear")
    /\ IF l.p < l.page + l.pages
       THEN /\ bitmap' = BitmapClear(bitmap, l.p)
            /\ ctx' = [ctx EXCEPT ![c].p = l.p + 1]
       ELSE /\ bitmap' = bitmap
            /\ ctx' = [ctx EXCEPT ![c].pc = "unlock",
                                  ![c].ret = Some(PhysAddrNew(l.page * PAGE_SIZE))]
    /\ UNCHANGED <<mem, live, run, initFree, memmap, last, panicked, rt, lock, vmmVars, slabVars>>

\* the MutexGuard is dropped on return
AllocUnlock(c) ==
    /\ Runs(c, "unlock")
    /\ lock' = FALSE
    /\ ctx' = [ctx EXCEPT ![c].pc = "done"]
    /\ last' = Call("alloc", ctx[c].pages, Some(c), ctx[c].ret)
    /\ UNCHANGED <<bitmap, mem, live, run, initFree, memmap, panicked, rt, vmmVars, slabVars>>

NextConc ==
    \E c \in Contexts :
        \/ AllocCall(c)
        \/ AllocLock(c)
        \/ AllocScanStep(c)
        \/ AllocClearStep(c)
        \/ AllocUnlock(c)

SpecConc == InitConc /\ [][NextConc]_vars

\* a context that can take a step takes one: a processor does not stop
\* between two statements, and a handler that has been entered runs
SpecConcLive == InitConc /\ [][NextConc]_vars /\ WF_vars(NextConc)

----------------------------------------------------------------------------
(* u64 arithmetic on addresses *)

\* add one at bit b, carrying upwards (wraps at 2^64)
RECURSIVE Carry(_, _)
Carry(w, b) ==
    IF b > 63 THEN w
    ELSE IF b \in w THEN Carry(w \ {b}, b + 1) ELSE w \cup {b}

\* w + n for a number n below 2^30
AddNat(w, n) ==
    LET lo == {b \in w : b < 30}
        sum == Value(lo) + n
        hi == w \ lo
    IN  IF sum < 2^30 THEN hi \cup Word(sum)
        ELSE Carry(hi, 30) \cup Word(sum - 2^30)

MaxBit(w) == CHOOSE b \in w : \A c \in w : c <= b
\* a < b as unsigned numbers
WordLess(a, b) ==
    /\ a # b
    /\ MaxBit((a \ b) \cup (b \ a)) \in b

----------------------------------------------------------------------------
(* Page tables (mm/vmm.rs) *)

\* PageFlags
PRESENT == {0}
WRITABLE == {1}
USERMODE == {2}
WT == {3}
UNCACHEABLE == {4}
MMAPED == {9}
NX == {63}
PageFlagBits == PRESENT \cup WRITABLE \cup USERMODE \cup WT \cup UNCACHEABLE
                    \cup MMAPED \cup NX

\* MapProt
PROT_NONE == {}
PROT_READ == {0}
PROT_WRITE == {1}
PROT_EXEC == {2}

\* MapFlags
MAP_SHARED == {0}
MAP_PRIVATE == {1}
MAP_FIXED == {4}
MAP_ANONYMOUS == {12}

\* bitflags contains(): (self.bits & other.bits) == other.bits
Contains(self, other) == (self \cap other) = other

\* impl From<MapProt> for PageFlags
PageFlagsFrom(prot) ==
    IF Contains(prot, PROT_NONE) THEN NX
    ELSE LET w == IF Contains(prot, PROT_WRITE) THEN NX \cup WRITABLE ELSE NX
             r == IF Contains(prot, PROT_READ) THEN w \cup USERMODE ELSE w
         IN  IF Contains(prot, PROT_EXEC) THEN r \ NX ELSE r

\* VirtAddr::pml4 / pdp / pd / pt: ((self.0 >> shift) & 0x1ff)
TableIndex(v, shift) == Value(ShiftRight(v, shift) \cap (0..8))
pml4(v) == TableIndex(v, 39)
pdp(v) == TableIndex(v, 30)
pd(v) == TableIndex(v, 21)
pt(v) == TableIndex(v, 12)

\* *ptr.offset(index) for a *mut u64 in the boot address space
CellFrame(ptr, index) == Value(ShiftRight(BootTranslate(ptr), 12))
CellIndex(ptr, index) == Value(BootTranslate(ptr) \cap (3..11)) \div 8 + index

ReadCell(m, ptr, index) ==
    LET f == CellFrame(ptr, index)
        c == CellIndex(ptr, index)
    IN  IF f \in DOMAIN m /\ c \in DOMAIN m[f] THEN m[f][c] ELSE {}

WriteCell(m, ptr, index, w) ==
    LET f == CellFrame(ptr, index)
        c == CellIndex(ptr, index)
        cells == IF w = {} THEN DOMAIN m[f] \ {c} ELSE DOMAIN m[f] \cup {c}
    IN  [m EXCEPT ![f] = [x \in cells |-> IF x = c THEN w ELSE m[f][x]]]

\* the part of the state a page-table walk reads and writes
Walk(bm, m, panic, next) == [bitmap |-> bm, mem |-> m, panic |-> panic, next |-> next]

\* get_next_level giving a new table PRESENT | WRITABLE only
GetNextLevelNoUser(st, curr, index) ==
    LET level == higher_half(curr)
        e == ReadCell(st.mem, level, index)
    IN  IF st.panic THEN st
        ELSE IF e \cap {0} = {}
        THEN Then(PmmCalloc(st.bitmap, st.mem, 1), LAMBDA r :
                 IF ~IsSome(r.ret)
                 THEN Walk(st.bitmap, st.mem, TRUE, {})
                 ELSE Walk(r.bitmap,
                           WriteCell(r.mem, level, index,
                                     Unwrap(r.ret) \cup PRESENT \cup WRITABLE),
                           FALSE, Unwrap(r.ret)))
        ELSE Walk(st.bitmap, st.mem, FALSE, remove_flags(e))

\* VirtualMemManager::get_next_level
get_next_level(st, curr, index) ==
    LET level == higher_half(curr)
        e == ReadCell(st.mem, level, index)
    IN  IF st.panic THEN st
        ELSE IF e \cap {0} = {}
        THEN Then(PmmCalloc(st.bitmap, st.mem, 1), LAMBDA r :
                 IF ~IsSome(r.ret)
                 THEN Walk(st.bitmap, st.mem, TRUE, {})
                 ELSE LET entry == Unwrap(r.ret)
                          flags == PRESENT \cup WRITABLE \cup USERMODE
                      IN  Walk(r.bitmap,
                               WriteCell(r.mem, level, index, entry \cup flags),
                               FALSE, entry))
        ELSE Walk(st.bitmap, st.mem, FALSE, remove_flags(e))

\* the three get_next_level calls of map_page and get_mapping
WalkToTable(st, root, v) ==
    Then(get_next_level(st, root, pml4(v)), LAMBDA l3 :
    Then(get_next_level(l3, l3.next, pdp(v)), LAMBDA l2 :
         get_next_level(l2, l2.next, pd(v))))

\* the leaf without the flags
LeafValuePhysOnly(phys_addr, flags) == phys_addr

\* the leaf value map_page stores: phys_addr.as_u64() | flags.bits()
LeafValue(phys_addr, flags) == phys_addr \cup flags

\* VirtualMemManager::map_page
map_page(st, root, v, phys_addr, flags) ==
    Then(WalkToTable(st, root, v), LAMBDA t :
        IF t.panic THEN t
        ELSE Walk(t.bitmap, WriteCell(t.mem, t.next, pt(v), LeafValue(phys_addr, flags)),
                  FALSE, t.next))

\* VirtualMemManager::get_mapping: the walk, and the PageMapping read
get_mapping(st, root, v) ==
    Then(WalkToTable(st, root, v), LAMBDA t :
        IF t.panic THEN [walk |-> t, mapping |-> {}]
        ELSE [walk |-> t, mapping |-> ReadCell(t.mem, t.next, pt(v))])

\* PageMapping::phys_addr
phys_addr(mapping) == remove_flags(mapping)


\* VirtMemoryRange::new
VirtMemoryRange(base, length, prot, flags, offset, fd) ==
    [base |-> base, length |-> length, prot |-> prot, flags |-> flags,
     offset |-> offset, fd |-> fd]
RangeStart(r) == r.base
RangeEnd(r) == AddNat(r.base, r.length)

\* mmap: the test that sends a hint without MAP_FIXED to get_free_range
HintTaken(rs, start, end) ==
    \E i \in 1..Len(rs) :
        \/ WordLess(RangeStart(rs[i]), start) /\ WordLess(start, RangeEnd(rs[i]))
        \/ WordLess(RangeStart(rs[i]), end) /\ WordLess(end, RangeEnd(rs[i]))

\* the test of get_range on one entry
InRangeStrict(r, address) ==
    WordLess(RangeStart(r), address) /\ WordLess(address, RangeEnd(r))

\* VirtualMemManager::get_range: the first entry the test accepts
get_range(rs, address) ==
    LET hits == {i \in 1..Len(rs) : InRangeStrict(rs[i], address)}
    IN  IF hits = {} THEN None
        ELSE Some(rs[CHOOSE i \in hits : \A j \in hits : i <= j])

\* the flags mmap gives every leaf of the range
MmapLeafFlagsPresent(prot) == PageFlagsFrom(prot) \cup MMAPED \cup PRESENT
MmapLeafFlags(prot) == PageFlagsFrom(prot) \cup MMAPED

\* for page in (start..end).step_by(PAGE_SIZE) { map_page(page, 0, flags, true) }
RECURSIVE MmapPages(_, _, _, _, _)
MmapPages(st, root, page, end, flags) ==
    IF st.panic \/ ~WordLess(page, end) THEN st
    ELSE Then(map_page(st, root, page, PhysAddrNew(0), flags), LAMBDA mapped :
         Then(AddNat(page, PAGE_SIZE), LAMBDA next :
              MmapPages(mapped, root, next, end, flags)))

\* VirtualMemManager::mmap; get_free_range is todo!(), which panics
mmap(st, root, rs, address, length, prot, flags, fd, offset) ==
    IF address = None /\ Contains(flags, MAP_FIXED)
    THEN [walk |-> st, ranges |-> rs]
    ELSE IF address = None
    THEN [walk |-> Walk(st.bitmap, st.mem, TRUE, {}), ranges |-> rs]
    ELSE Then(Unwrap(address), LAMBDA start :
         Then(AddNat(start, length), LAMBDA end :
             IF ~Contains(flags, MAP_FIXED) /\ HintTaken(rs, start, end)
             THEN [walk |-> Walk(st.bitmap, st.mem, TRUE, {}), ranges |-> rs]
             ELSE Then(MmapPages(st, root, start, end, MmapLeafFlags(prot)), LAMBDA w :
                      IF w.panic THEN [walk |-> w, ranges |-> rs]
                      ELSE [walk |-> w,
                            ranges |-> Append(rs, VirtMemoryRange(start, length, prot,
                                                                  flags, offset, fd))])))

----------------------------------------------------------------------------
(* One user address space: VirtualMemManager::new(true), then map_page,     *)
(* get_mapping and mmap calls                                               *)

\* the kernel's PML4 entries 256 and 511, copied into every user PML4
KernelEntry(i) == PRESENT \cup WRITABLE \cup ShiftLeft(Word(2^10 + i), 12)

VA(i4, i3, i2, i1) ==
    ShiftLeft(Word(i4), 39) \cup ShiftLeft(Word(i3), 30)
        \cup ShiftLeft(Word(i2), 21) \cup ShiftLeft(Word(i1), 12)

VSamples == {VA(0, 0, 0, 1), AddNat(VA(0, 0, 0, 1), 100), VA(0, 0, 1, 0), VA(1, 0, 0, 0)}
\* two page-aligned frames below 2^52, and an address inside a page
PSamples == {PhysAddrNew(5 * PAGE_SIZE), {12, 51}, PhysAddrNew(5 * PAGE_SIZE + 8)}
FSamples == {PRESENT \cup WRITABLE \cup USERMODE, PRESENT \cup NX, MMAPED \cup NX}
HintSamples == {None, Some(VA(0, 0, 0, 1)), Some(VA(0, 0, 0, 511)),
                Some(AddNat(VA(0, 0, 0, 1), 2048))}
LengthSamples == {PAGE_SIZE, PAGE_SIZE + 1}
\* addresses looked up in the range list: a base, inside, the end of one page
ProbeSamples == {VA(0, 0, 0, 1), AddNat(VA(0, 0, 0, 1), 100), VA(0, 0, 0, 2)}
ProtSamples == {PROT_READ \cup PROT_WRITE, PROT_READ \cup PROT_EXEC}
\* <<flags, fd, offset>>
BackingSamples == {<<MAP_ANONYMOUS \cup MAP_PRIVATE, None, 0>>,
                   <<MAP_ANONYMOUS \cup MAP_PRIVATE \cup MAP_FIXED, None, 0>>,
                   <<MAP_PRIVATE, Some(3), 1024>>}

\* VirtualMemManager::new(true) on the allocator as init left it
VmmNew(bm, m) ==
    Then(PmmCalloc(bm, m, 1), LAMBDA r :
        LET root == Unwrap(r.ret)
            m256 == WriteCell(r.mem, higher_half(root), 256, KernelEntry(256))
        IN  [pagemap |-> root, bitmap |-> r.bitmap,
             mem |-> WriteCell(m256, higher_half(root), 511, KernelEntry(511))])

InitVmm ==
    /\ initFree = 1..(VmmFrames - 1)
    /\ \E bm \in {PmmInit(VmmFrames, initFree)} :
       \E v \in {VmmNew(bm, [f \in 0..(VmmFrames - 1) |-> DirtyFrame])} :
           /\ bitmap = v.bitmap
           /\ mem = v.mem
           /\ pagemap = v.pagemap
           /\ live = {<<PageOf(v.pagemap), 1>>}
    /\ run = {}
    /\ memmap = <<>>
    /\ last = Call("init", 0, None, None)
    /\ panicked = FALSE
    /\ rt = [pc |-> "off"]
    /\ lock = FALSE
    /\ ctx = NoContext
    /\ ranges = <<>>
    /\ ops = 0
    /\ NoFault
    /\ NoSlab

\* the walk's effect on the allocator and on memory
WalkDone(st) ==
    /\ bitmap' = st.bitmap
    /\ mem' = st.mem
    /\ panicked' = st.panic
    /\ live' = live \cup {<<f, 1>> : f \in FreeFrames(bitmap) \ FreeFrames(st.bitmap)}
    /\ ops' = ops + 1
    /\ UNCHANGED <<run, initFree, memmap, callerVars, pagemap, faultVars, slabVars>>

Here == Walk(bitmap, mem, FALSE, {})

MapPage(v, p, f) ==
    /\ ~panicked /\ ops < MaxVmmOps
    /\ \E st \in {map_page(Here, pagemap, v, p, f)} : WalkDone(st)
    /\ last' = Call("map_page", 0, <<v, p, f>>, None)
    /\ UNCHANGED ranges

GetMapping(v) ==
    /\ ~panicked /\ ops < MaxVmmOps
    /\ \E r \in {get_mapping(Here, pagemap, v)} :
        /\ WalkDone(r.walk)
        /\ last' = Call("get_mapping", 0, <<v>>, Some(r.mapping))
    /\ UNCHANGED ranges

Mmap(address, length, prot, backing) ==
    /\ ~panicked /\ ops < MaxVmmOps
    /\ \E r \in {mmap(Here, pagemap, ranges, address, length, prot,
                       backing[1], backing[2], backing[3])} :
        /\ WalkDone(r.walk)
        /\ ranges' = r.ranges
    /\ last' = Call("mmap", length, <<address, prot, backing>>, None)

GetRange(a) ==
    /\ ~panicked /\ ops < MaxVmmOps
    /\ last' = Call("get_range", 0, <<a>>, get_range(ranges, a))
    /\ ops' = ops + 1
    /\ UNCHANGED <<bitmap, mem, live, run, initFree, memmap, panicked, callerVars,
                   pagemap, ranges, faultVars, slabVars>>

NextVmm ==
    \/ \E v \in VSamples, p \in PSamples, f \in FSamples : MapPage(v, p, f)
    \/ \E v \in VSamples : GetMapping(v)
    \/ \E a \in ProbeSamples : GetRange(a)
    \/ \E a \in HintSamples, l \in LengthSamples, prot \in ProtSamples,
          b \in BackingSamples : Mmap(a, l, prot, b)

SpecVmm == InitVmm /\ [][NextVmm]_vars

----------------------------------------------------------------------------
(* VirtualMemManager::new beside the kernel's address space.  vmm::init     *)
(* takes the kernel's pagemap from CR3; its frame is not one the frame      *)
(* allocator hands out.                                                     *)

\* new(true) copying entry 256 only
VirtualMemManagerNew256(bm, m, kernel, usermode) ==
    IF ~usermode
    THEN [pagemap |-> PhysAddrNew(0), ranges |-> <<>>, bitmap |-> bm, mem |-> m,
          panic |-> FALSE]
    ELSE Then(PmmCalloc(bm, m, 1), LAMBDA r :
            IF ~IsSome(r.ret)
            THEN [pagemap |-> {}, ranges |-> <<>>, bitmap |-> bm, mem |-> m, panic |-> TRUE]
            ELSE [pagemap |-> Unwrap(r.ret), ranges |-> <<>>, bitmap |-> r.bitmap,
                  mem |-> WriteCell(r.mem, higher_half(Unwrap(r.ret)), 256,
                                    ReadCell(r.mem, kernel, 256)),
                  panic |-> FALSE])

\* VirtualMemManager::new(usermode); `kernel` is get().pagemap
VirtualMemManager_new(bm, m, kernel, usermode) ==
    IF ~usermode
    THEN [pagemap |-> PhysAddrNew(0), ranges |-> <<>>, bitmap |-> bm, mem |-> m,
          panic |-> FALSE]
    ELSE Then(PmmCalloc(bm, m, 1), LAMBDA r :
            IF ~IsSome(r.ret)
            THEN [pagemap |-> {}, ranges |-> <<>>, bitmap |-> bm, mem |-> m, panic |-> TRUE]
            ELSE LET pml4_ptr == higher_half(Unwrap(r.ret))
                     m256 == WriteCell(r.mem, pml4_ptr, 256, ReadCell(r.mem, kernel, 256))
                     m511 == WriteCell(m256, pml4_ptr, 511, ReadCell(m256, kernel, 511))
                 IN  [pagemap |-> Unwrap(r.ret), ranges |-> <<>>, bitmap |-> r.bitmap,
                      mem |-> m511, panic |-> FALSE])

\* the frame of the kernel's PML4
KernelFrame == VmmFrames - 1
\* values of the kernel's PML4 entries 0 (identity map), 256 and 511
KernelEntrySamples == {{}, KernelEntry(256), KernelEntry(511) \cup NX}

InitNew ==
    /\ initFree \in SUBSET (0..(KernelFrame - 1))
    /\ bitmap = PmmInit(VmmFrames, initFree)
    /\ \E e0 \in KernelEntrySamples, e256 \in KernelEntrySamples, e511 \in KernelEntrySamples :
        LET cells == {c \in {0, 256, 511} : <<e0, e256, e511>>[(c \div 255) + 1] # {}}
        IN  mem = [f \in 0..(VmmFrames - 1) |->
                    IF f = KernelFrame
                    THEN [c \in cells |-> <<e0, e256, e511>>[(c \div 255) + 1]]
                    ELSE DirtyFrame]
    /\ live = {}
    /\ run = {}
    /\ memmap = <<>>
    /\ last = Call("init", 0, None, None)
    /\ panicked = FALSE
    /\ rt = [pc |-> "kernel", pagemap |-> PhysAddrNew(KernelFrame * PAGE_SIZE)]
    /\ lock = FALSE
    /\ ctx = NoContext
    /\ pagemap = {}
    /\ ranges = <<>>
    /\ ops = 0
    /\ NoFault
    /\ NoSlab

\* one more address space is created
New(usermode) ==
    /\ ~panicked /\ ops < MaxVmmOps
    /\ \E r \in {VirtualMemManager_new(bitmap, mem, rt.pagemap, usermode)} :
        /\ bitmap' = r.bitmap
        /\ mem' = r.mem
        /\ panicked' = r.panic
        /\ pagemap' = r.pagemap
        /\ ranges' = r.ranges
        /\ live' = live \cup {<<f, 1>> : f \in FreeFrames(bitmap) \ FreeFrames(r.bitmap)}
    /\ ops' = ops + 1
    /\ last' = Call("new", 0, Some(usermode), None)
    /\ UNCHANGED <<run, initFree, memmap, callerVars, faultVars, slabVars>>

NextNew == \E usermode \in BOOLEAN : New(usermode)

SpecNew == InitNew /\ [][NextNew]_vars

----------------------------------------------------------------------------
(* The page-fault handler (mm/vmm.rs page_fault), on the address space of   *)
(* the running thread's process                                             *)

\* the file behind a mapping: its non-zero bytes, by file offset
FileData == [o \in {1024, 1031, 5119, 5120, 5127, 7167, 7168, 9215} |-> (o % 255) + 1]

\* Filesystem::read(index, buffer, cnt, offset): cnt bytes of the file from
\* `offset` are copied to the buffer, the bytes behind them are left alone
VfsRead(m, buffer, cnt, offset) ==
    LET f == CellFrame(buffer, 0)
        data == {o \in DOMAIN FileData : offset <= o /\ o < offset + cnt}
        Old(c) == IF c \in DOMAIN m[f] THEN m[f][c] ELSE {}
        Kept(c) == IF 8 * c + 8 <= cnt THEN {}
                   ELSE IF 8 * c >= cnt THEN Old(c)
                   ELSE {b \in Old(c) : b >= 8 * (cnt - 8 * c)}
        Filled(c) == UNION {ShiftLeft(Word(FileData[o]), 8 * ((o - offset) % 8)) :
                               o \in {x \in data : (x - offset) \div 8 = c}}
        cells == {c \in DOMAIN m[f] \cup {(o - offset) \div 8 : o \in data} :
                     Kept(c) \cup Filled(c) # {}}
    IN  [m EXCEPT ![f] = [c \in cells |-> Kept(c) \cup Filled(c)]]

\* what one run of the handler leaves behind
Fault(st, outcome, if, rd) ==
    [walk |-> st, outcome |-> outcome, intr |-> if, reads |-> rd]

\* PageFlags::from(range.prot) | PageFlags::PRESENT
AnonFlags(prot) == PageFlagsFrom(prot) \cup PRESENT

\* PageFlags::from(range.prot): the flags the private path maps with
PrivateFlags(prot) == PageFlagsFrom(prot)

\* if range.is_anon_map() { ... }
FaultAnon(st, root, range, cr2) ==
    Then(PmmCalloc(st.bitmap, st.mem, 1), LAMBDA r :
        IF ~IsSome(r.ret)
        THEN Fault(Walk(st.bitmap, st.mem, TRUE, {}), "panic", TRUE, <<>>)
        ELSE Then(map_page(Walk(r.bitmap, r.mem, FALSE, {}), root, cr2,
                           Unwrap(r.ret), AnonFlags(range.prot)), LAMBDA w :
                 Fault(w, IF w.panic THEN "panic" ELSE "return", TRUE, <<>>)))

\* this_page_number, offset and cnt of the private path
ThisPageNumber(range, cr2) ==
    Value(ShiftRight(cr2, 12)) - Value(ShiftRight(RangeStart(range), 12))
ReadOffset(range, cr2) == ThisPageNumber(range, cr2) * PAGE_SIZE + range.offset
ReadCount(range, cr2) ==
    IF (ThisPageNumber(range, cr2) + 1) * PAGE_SIZE <= range.length
    THEN PAGE_SIZE
    ELSE range.length % PAGE_SIZE

\* if range.is_private_map() { ... }
FaultPrivate(st, root, range, cr2) ==
    Then(PmmCalloc(st.bitmap, st.mem, 1), LAMBDA r :
        IF ~IsSome(r.ret)
        THEN Fault(Walk(st.bitmap, st.mem, TRUE, {}), "panic", TRUE, <<>>)
        ELSE IF range.fd = None
        THEN Fault(Walk(r.bitmap, r.mem, TRUE, {}), "panic", TRUE, <<>>)
        ELSE LET page == higher_half(Unwrap(r.ret))
                 cnt == ReadCount(range, cr2)
                 off == ReadOffset(range, cr2)
                 call == [fd |-> Unwrap(range.fd), buffer |-> page,
                          cnt |-> cnt, offset |-> off]
             IN  Then(VfsRead(r.mem, page, cnt, off), LAMBDA filled :
                 Then(map_page(Walk(r.bitmap, filled, FALSE, {}), root, cr2,
                               lower_half(page), PrivateFlags(range.prot)), LAMBDA w :
                     Fault(w, IF w.panic THEN "panic" ELSE "return", TRUE, <<call>>))))

\* the genuine-fault path without cpu::halt()
FaultGenuineReturns(st) == Fault(st, "return", FALSE, <<>>)
\* serial::print!(...); cpu::halt();
FaultGenuine(st) == Fault(st, "halt", FALSE, <<>>)

\* a handler that backs the page with a fresh frame where no range is found
FaultNoRangeMaps(st, root, cr2) ==
    FaultAnon(st, root, [prot |-> PROT_NONE], cr2)
\* get_range(virt_cr2).expect("Page is marked as mmaped but doesn't belong to
\* any range") on None: the panic, behind interrupts::enable()
FaultNoRange(st, root, cr2) ==
    Fault(Walk(st.bitmap, st.mem, TRUE, {}), "panic", TRUE, <<>>)

\* the handler taking the demand-paging branch whatever the leaf holds
IsMmapedAlways(mapping) == TRUE
\* PageMapping::is_mmaped
is_mmaped(mapping) == mapping \cap MMAPED # {}

\* page_fault with CR2 = cr2; the gate is an interrupt gate, so IF is clear
\* on entry; a failed expect() ends in panic_handler, which halts
page_fault(st, root, rs, cr2) ==
    Then(get_mapping(st, root, cr2), LAMBDA g :
        IF g.walk.panic THEN Fault(g.walk, "panic", FALSE, <<>>)
        ELSE IF is_mmaped(g.mapping)
        THEN Then(get_range(rs, cr2), LAMBDA found :
                 IF found = None
                 THEN FaultNoRange(g.walk, root, cr2)
                 ELSE IF Contains(Unwrap(found).flags, MAP_ANONYMOUS)
                 THEN FaultAnon(g.walk, root, Unwrap(found), cr2)
                 ELSE IF Contains(Unwrap(found).flags, MAP_PRIVATE)
                 THEN FaultPrivate(g.walk, root, Unwrap(found), cr2)
                 ELSE Fault(g.walk, "return", TRUE, <<>>))
        ELSE FaultGenuine(g.walk))

\* one mmap call made on a fresh user address space, then faults
FaultBase == VA(0, 0, 0, 1)
FaultLengths == {2 * PAGE_SIZE, PAGE_SIZE + 2048}
FaultBackings == {<<MAP_ANONYMOUS \cup MAP_PRIVATE, None, 0>>,
                  <<MAP_PRIVATE, Some(3), 1024>>,
                  <<MAP_PRIVATE, None, 0>>,
                  <<MAP_SHARED, Some(3), 0>>}
\* CR2: the base, inside the first page, inside the second page (before and
\* behind the end of the shorter range), and an address no range holds
FaultSamples == {FaultBase, AddNat(FaultBase, 100), AddNat(FaultBase, 200),
                 AddNat(FaultBase, PAGE_SIZE), AddNat(FaultBase, PAGE_SIZE + 100),
                 AddNat(FaultBase, PAGE_SIZE + 3000), VA(0, 0, 1, 0)}

InitFault ==
    /\ initFree = 1..(FaultFrames - 1)
    /\ \E l \in FaultLengths, prot \in ProtSamples, b \in FaultBackings :
       \E bm \in {PmmInit(FaultFrames, initFree)} :
       \E v \in {VmmNew(bm, [f \in 0..(FaultFrames - 1) |-> DirtyFrame])} :
       \E r \in {mmap(Walk(v.bitmap, v.mem, FALSE, {}), v.pagemap, <<>>,
                      Some(FaultBase), l, prot, b[1], b[2], b[3])} :
           /\ bitmap = r.walk.bitmap
           /\ mem = r.walk.mem
           /\ pagemap = v.pagemap
           /\ ranges = r.ranges
           /\ live = {<<f, 1>> : f \in initFree \ FreeFrames(r.walk.bitmap)}
           /\ last = Call("mmap", l, <<Some(FaultBase), prot, b>>, None)
    /\ run = {}
    /\ memmap = <<>>
    /\ panicked = FALSE
    /\ rt = [pc |-> "off"]
    /\ lock = FALSE
    /\ ctx = NoContext
    /\ ops = 0
    /\ NoFault
    /\ NoSlab

PageFault(cr2) ==
    /\ ~panicked /\ ~halted /\ ops < MaxFaults
    /\ \E r \in {page_fault(Here, pagemap, ranges, cr2)} :
        /\ bitmap' = r.walk.bitmap
        /\ mem' = r.walk.mem
        /\ panicked' = (r.outcome = "panic")
        /\ halted' = (r.outcome \in {"halt", "panic"})
        /\ intr' = r.intr
        /\ reads' = reads \o r.reads
        /\ live' = live \cup {<<f, 1>> : f \in FreeFrames(bitmap) \ FreeFrames(r.walk.bitmap)}
        /\ last' = Call("page_fault", 0, <<cr2>>, Some(r.outcome))
    /\ ops' = ops + 1
    /\ UNCHANGED <<run, initFree, memmap, callerVars, pagemap, ranges, slabVars>>

NextFault == \E cr2 \in FaultSamples : PageFault(cr2)

SpecFault == InitFault /\ [][NextFault]_vars

----------------------------------------------------------------------------
(* The slab allocator (mm/slab.rs): one Cache and its Slabs.  A pointer is   *)
(* the number of its physical address; every pointer of the code is that    *)
(* address in the PHYS_BASE direct map.  A Slab is named by its position in *)
(* `slabs`; 0 is the null pointer.                                          *)

OBJS_PER_SLAB == 256
\* size_of::<Slab>(): two usize, three pointers, spin::Mutex<Bitmap>
SlabHeaderSize == 72
Null == 0

\* Bitmap::new(size): the pages are taken from the allocator, zero-filled
BitmapNew(bm, m, size) ==
    Then(PmmCalloc(bm, m, div_ceil(size, PAGE_SIZE)), LAMBDA r :
        [ok |-> IsSome(r.ret), bitmap |-> r.bitmap, mem |-> r.mem,
         bytes |-> [b \in 0..(size - 1) |-> 0]])

\* the allocator, memory, cache and slabs a slab call works on
Heap(bm, m, c, ss, panic) ==
    [bitmap |-> bm, mem |-> m, cache |-> c, slabs |-> ss, panic |-> panic]

\* Slab::new(parent); the new Slab is Len(slabs)
SlabNew(h) ==
    Then(PmmCalloc(h.bitmap, h.mem, h.cache.pages_per_slab), LAMBDA r :
        IF ~IsSome(r.ret) THEN Heap(h.bitmap, h.mem, h.cache, h.slabs, TRUE)
        ELSE Then(BitmapNew(r.bitmap, r.mem, PAGE_SIZE), LAMBDA b :
            IF ~b.ok THEN Heap(r.bitmap, r.mem, h.cache, h.slabs, TRUE)
            ELSE LET slab_ptr == Value(Unwrap(r.ret))
                     slab == [free_objs |-> OBJS_PER_SLAB,
                              object_size |-> h.cache.object_size,
                              bitmap |-> b.bytes,
                              next |-> h.cache.slabs,
                              data |-> slab_ptr + SlabHeaderSize]
                     ss == Append(h.slabs, slab)
                 IN  Heap(b.bitmap, b.mem,
                          [h.cache EXCEPT !.slabs = Len(ss), !.slab_count = @ + 1],
                          ss, FALSE)))

\* Cache::new(name, obj_size), the Slabs created so far being ss
CacheNewIn(bm, m, ss, obj_size) ==
    Then(PmmCalloc(bm, m, 1), LAMBDA r :
        IF ~IsSome(r.ret) THEN Heap(bm, m, <<>>, ss, TRUE)
        ELSE SlabNew(Heap(r.bitmap, r.mem,
                          [object_size |-> obj_size,
                           pages_per_slab |->
                               div_ceil(OBJS_PER_SLAB * obj_size + SlabHeaderSize, PAGE_SIZE),
                           slab_count |-> 0,
                           slabs |-> Null],
                          ss, FALSE)))

\* Cache::new(name, obj_size) for the first Cache
CacheNew(bm, m, obj_size) == CacheNewIn(bm, m, <<>>, obj_size)

\* the first index of 0..OBJS_PER_SLAB-1 whose bit is clear, or -1
FirstClear(bytes) ==
    LET clear == {i \in 0..(OBJS_PER_SLAB - 1) : ~BitmapIsSet(bytes, i)}
    IN  IF clear = {} THEN -1 ELSE CHOOSE i \in clear : \A j \in clear : i <= j

\* Slab::alloc without `self.free_objs -= 1`
SlabAllocNoCount(slab) ==
    IF slab.free_objs = 0 THEN [slab |-> slab, ptr |-> Null]
    ELSE LET i == FirstClear(slab.bitmap)
         IN  IF i < 0 THEN [slab |-> slab, ptr |-> Null]
             ELSE [slab |-> [slab EXCEPT !.bitmap = BitmapSet(@, i)],
                   ptr |-> slab.data + i * slab.object_size]

\* Slab::alloc
SlabAlloc(slab) ==
    IF slab.free_objs = 0 THEN [slab |-> slab, ptr |-> Null]
    ELSE LET i == FirstClear(slab.bitmap)
         IN  IF i < 0 THEN [slab |-> slab, ptr |-> Null]
             ELSE [slab |-> [slab EXCEPT !.bitmap = BitmapSet(@, i),
                                         !.free_objs = @ - 1],
                   ptr |-> slab.data + i * slab.object_size]

\* Slab::dealloc
SlabDealloc(slab, ptr) ==
    LET bit == (ptr - slab.data) \div slab.object_size
    IN  [slab EXCEPT !.free_objs = @ + 1, !.bitmap = BitmapClear(@, bit)]

\* while curr_slab.free_objs == 0 { curr_slab = &mut *curr_slab.next; }
\* the Slab the loop stops at, or Null when it runs off the end of the list
RECURSIVE FindSlab(_, _)
FindSlab(ss, i) ==
    IF i = Null THEN Null
    ELSE IF ss[i].free_objs = 0 THEN FindSlab(ss, ss[i].next)
    ELSE i

\* Cache::alloc_obj where the loop stops at a Slab: [heap, ptr]
AllocObjAt(h, i) ==
    IF h.slabs[i].free_objs = 0
    THEN Then(SlabNew(h), LAMBDA g :
             IF g.panic THEN [heap |-> g, ptr |-> Null]
             ELSE LET new_slab == g.cache.slabs
                      linked == [g.slabs EXCEPT ![new_slab].next = g.cache.slabs]
                      a == SlabAlloc(linked[new_slab])
                  IN  [heap |-> Heap(g.bitmap, g.mem, g.cache,
                                     [linked EXCEPT ![new_slab] = a.slab], FALSE),
                       ptr |-> a.ptr])
    ELSE LET a == SlabAlloc(h.slabs[i])
         IN  [heap |-> Heap(h.bitmap, h.mem, h.cache,
                            [h.slabs EXCEPT ![i] = a.slab], FALSE),
              ptr |-> a.ptr]

\* the Slab of the list whose pages hold ptr, looking at slab_count Slabs
RECURSIVE OwnerOf(_, _, _, _)
OwnerOf(h, i, left, ptr) ==
    IF left = 0 \/ i = Null THEN Null
    ELSE IF /\ ptr >= h.slabs[i].data
            /\ ptr < h.slabs[i].data + h.cache.pages_per_slab * PAGE_SIZE
    THEN i
    ELSE OwnerOf(h, h.slabs[i].next, left - 1, ptr)

\* Cache::free_obj
FreeObjIn(h, ptr) ==
    LET i == OwnerOf(h, h.cache.slabs, h.cache.slab_count, ptr)
    IN  IF i = Null THEN Heap(h.bitmap, h.mem, h.cache, h.slabs, TRUE)
        ELSE Heap(h.bitmap, h.mem, h.cache,
                  [h.slabs EXCEPT ![i] = SlabDealloc(@, ptr)], FALSE)

ObjectSizes == {8, 16}
\* the numbers of held objects at which a free_obj call is tried
FreeAt == {1, 2, OBJS_PER_SLAB, OBJS_PER_SLAB + 1}
\* what the dereference of the null `next` can make of alloc_obj: the access
\* faults and the processor halts, or the loop takes the memory at address 0
\* for a Slab and a pointer to no slot of the cache comes back
NullDerefOutcomes == {"halt", "wild"}
WildPointers == {Null, SlabHeaderSize}

InitSlab ==
    /\ initFree = 1..(SlabFrames - 1)
    /\ \E size \in ObjectSizes :
       \E h \in {CacheNew(PmmInit(SlabFrames, initFree),
                          [f \in 0..(SlabFrames - 1) |-> DirtyFrame], size)} :
           /\ bitmap = h.bitmap
           /\ mem = h.mem
           /\ cache = h.cache
           /\ slabs = h.slabs
           /\ panicked = h.panic
           /\ live = {<<f, 1>> : f \in initFree \ FreeFrames(h.bitmap)}
    /\ run = {}
    /\ memmap = <<>>
    /\ last = Call("init", 0, None, None)
    /\ rt = [pc |-> "off"]
    /\ lock = FALSE
    /\ ctx = NoContext
    /\ pagemap = {} /\ ranges = <<>> /\ ops = 0 /\ NoFault
    /\ held = <<>>
    /\ frees = 0
    /\ caches = <<>>

HeapHere == Heap(bitmap, mem, cache, slabs, FALSE)

HeapDone(h) ==
    /\ bitmap' = h.bitmap
    /\ mem' = h.mem
    /\ cache' = h.cache
    /\ slabs' = h.slabs
    /\ panicked' = h.panic
    /\ live' = live \cup {<<f, 1>> : f \in FreeFrames(bitmap) \ FreeFrames(h.bitmap)}

\* Cache::alloc_obj on a cache that has a Slab with a free slot
AllocObj ==
    /\ ~panicked /\ ~halted /\ Len(held) <= OBJS_PER_SLAB
    /\ FindSlab(slabs, cache.slabs) # Null
    /\ \E r \in {AllocObjAt(HeapHere, FindSlab(slabs, cache.slabs))} :
        /\ HeapDone(r.heap)
        /\ held' = IF r.heap.panic THEN held ELSE Append(held, r.ptr)
        /\ last' = Call("alloc_obj", 0, None, Some(r.ptr))
    /\ UNCHANGED <<run, initFree, memmap, callerVars, pagemap, ranges, ops, faultVars, frees, caches>>

\* Cache::alloc_obj on a cache whose Slabs are all full: the loop reads
\* through the null `next` of the last Slab
AllocObjFull ==
    /\ ~panicked /\ ~halted /\ Len(held) <= OBJS_PER_SLAB
    /\ FindSlab(slabs, cache.slabs) = Null
    /\ \E outcome \in NullDerefOutcomes :
        \/ /\ outcome = "halt"
           /\ halted' = TRUE
           /\ last' = Call("alloc_obj", 0, None, None)
           /\ UNCHANGED held
        \/ /\ outcome = "wild"
           /\ \E w \in WildPointers :
                /\ held' = Append(held, w)
                /\ last' = Call("alloc_obj", 0, None, Some(w))
           /\ UNCHANGED halted
    /\ UNCHANGED <<bitmap, mem, live, run, initFree, memmap, panicked, callerVars>>
    /\ UNCHANGED <<pagemap, ranges, ops, intr, reads, cache, slabs, frees, caches>>

\* Cache::free_obj(ptr) for the k-th pointer held
FreeObj(k) ==
    /\ ~panicked /\ ~halted /\ frees < MaxSlabFrees
    /\ Len(held) \in FreeAt /\ k \in 1..Len(held)
    /\ HeapDone(FreeObjIn(HeapHere, held[k]))
    /\ held' = [j \in 1..(Len(held) - 1) |-> IF j < k THEN held[j] ELSE held[j + 1]]
    /\ frees' = frees + 1
    /\ last' = Call("free_obj", 0, Some(held[k]), None)
    /\ UNCHANGED <<run, initFree, memmap, callerVars, pagemap, ranges, ops, faultVars, caches>>

NextSlab ==
    \/ AllocObj
    \/ AllocObjFull
    \/ \E k \in {1, Len(held)} : FreeObj(k)

SpecSlab == InitSlab /\ [][NextSlab]_vars

----------------------------------------------------------------------------
(* A caller that takes an object from the Cache, gives it back at once and   *)
(* takes one again, after any number of earlier allocations                  *)

InitObjRt ==
    /\ initFree = 1..(SlabFrames - 1)
    /\ \E size \in ObjectSizes :
       \E h \in {CacheNew(PmmInit(SlabFrames, initFree),
                          [f \in 0..(SlabFrames - 1) |-> DirtyFrame], size)} :
           /\ bitmap = h.bitmap
           /\ mem = h.mem
           /\ cache = h.cache
           /\ slabs = h.slabs
           /\ panicked = h.panic
           /\ live = {<<f, 1>> : f \in initFree \ FreeFrames(h.bitmap)}
    /\ run = {}
    /\ memmap = <<>>
    /\ last = Call("init", 0, None, None)
    /\ rt = [pc |-> "fill"]
    /\ lock = FALSE
    /\ ctx = NoContext
    /\ pagemap = {} /\ ranges = <<>> /\ ops = 0 /\ NoFault
    /\ held = <<>>
    /\ frees = 0
    /\ caches = <<>>

\* the earlier calls
FillAlloc == rt.pc = "fill" /\ AllocObj
FillFree(k) == rt.pc = "fill" /\ FreeObj(k)

\* alloc_obj by the caller; p is the pointer it gets
ObjRtAlloc ==
    /\ ~panicked /\ ~halted /\ rt.pc \in {"fill", "freed"}
    /\ LET i == FindSlab(slabs, cache.slabs)
           to == IF rt.pc = "fill" THEN "held" ELSE "again"
       IN  IF i # Null
           THEN \E r \in {AllocObjAt(HeapHere, i)} :
                   /\ HeapDone(r.heap)
                   /\ rt' = IF rt.pc = "fill"
                            THEN [pc |-> to, before |-> slabs, p |-> r.ptr]
                            ELSE [pc |-> to, before |-> rt.before, p |-> rt.p, q |-> r.ptr]
                   /\ last' = Call("alloc_obj", 0, None, Some(r.ptr))
                   /\ UNCHANGED halted
           ELSE \E outcome \in NullDerefOutcomes :
                   \/ /\ outcome = "halt"
                      /\ halted' = TRUE
                      /\ last' = Call("alloc_obj", 0, None, None)
                      /\ UNCHANGED <<rt, bitmap, mem, cache, slabs, panicked, live>>
                   \/ /\ outcome = "wild"
                      /\ \E w \in WildPointers :
                           /\ rt' = IF rt.pc = "fill"
                                    THEN [pc |-> to, before |-> slabs, p |-> w]
                                    ELSE [pc |-> to, before |-> rt.before, p |-> rt.p, q |-> w]
                           /\ last' = Call("alloc_obj", 0, None, Some(w))
                      /\ UNCHANGED <<halted, bitmap, mem, cache, slabs, panicked, live>>
    /\ UNCHANGED <<run, initFree, memmap, lock, ctx, pagemap, ranges, ops, intr, reads,
                   held, frees, caches>>

\* free_obj(p) by the caller, at once
ObjRtFree ==
    /\ ~panicked /\ ~halted /\ rt.pc = "held"
    /\ HeapDone(FreeObjIn(HeapHere, rt.p))
    /\ rt' = [rt EXCEPT !.pc = "freed"]
    /\ last' = Call("free_obj", 0, Some(rt.p), None)
    /\ UNCHANGED <<run, initFree, memmap, lock, ctx, vmmVars, held, frees, caches>>

NextObjRt ==
    \/ FillAlloc
    \/ \E k \in {1, Len(held)} : FillFree(k)
    \/ ObjRtAlloc
    \/ ObjRtFree

SpecObjRt == InitObjRt /\ [][NextObjRt]_vars

----------------------------------------------------------------------------
(* Two contexts inside Cache::alloc_obj at once, one statement at a time:    *)
(* a task and another processor, or (sameCore) an interrupt handler that     *)
(* preempted the task and runs until it returns.  `lock` is the set of the   *)
(* Slabs whose bitmap Mutex is held.                                         *)

\* objects taken from the first Slab before the two calls
TakenBefore == {0, OBJS_PER_SLAB - 2, OBJS_PER_SLAB - 1}

ObjIdle == [pc |-> "call", curr |-> Null, i |-> -1, ret |-> None]

InitObjConc ==
    /\ initFree = 1..(SlabFrames - 1)
    /\ \E size \in ObjectSizes, n \in TakenBefore :
       \E h \in {CacheNew(PmmInit(SlabFrames, initFree),
                          [f \in 0..(SlabFrames - 1) |-> DirtyFrame], size)} :
           /\ bitmap = h.bitmap
           /\ mem = h.mem
           /\ cache = h.cache
           /\ slabs = [h.slabs EXCEPT ![1].bitmap = SetFrames(@, 0..(n - 1)),
                                      ![1].free_objs = OBJS_PER_SLAB - n]
           /\ panicked = h.panic
           /\ live = {<<f, 1>> : f \in initFree \ FreeFrames(h.bitmap)}
           /\ held = [j \in 1..n |-> h.slabs[1].data + (j - 1) * size]
    /\ run = {}
    /\ memmap = <<>>
    /\ last = Call("init", 0, None, None)
    /\ \E sameCore \in BOOLEAN : rt = [pc |-> "off", sameCore |-> sameCore]
    /\ lock = {}
    /\ ctx = [c \in Contexts |-> ObjIdle]
    /\ pagemap = {} /\ ranges = <<>> /\ ops = 0 /\ NoFault
    /\ frees = 0
    /\ caches = <<>>

ObjRuns(c, pc) == Runs(c, pc) /\ ~panicked /\ ~halted

\* let mut curr_slab = &mut *self.slabs;
ObjCall(c) ==
    /\ ObjRuns(c, "call")
    /\ ctx' = [ctx EXCEPT ![c].pc = "find", ![c].curr = cache.slabs]
    /\ UNCHANGED <<pmmVars, rt, lock, vmmVars, slabVars>>

\* one test of while curr_slab.free_objs == 0 { curr_slab = &mut *curr_slab.next; }
ObjFind(c) ==
    LET l == ctx[c] IN
    /\ ObjRuns(c, "find") /\ l.curr # Null
    /\ ctx' = [ctx EXCEPT ![c] =
                 IF slabs[l.curr].free_objs = 0
                 THEN [l EXCEPT !.curr = slabs[l.curr].next]
                 ELSE [l EXCEPT !.pc = "check"]]
    /\ UNCHANGED <<pmmVars, rt, lock, vmmVars, slabVars>>

\* the same test through the null `next` of the last Slab
ObjFindNull(c) ==
    /\ ObjRuns(c, "find") /\ ctx[c].curr = Null
    /\ \E outcome \in NullDerefOutcomes :
        \/ /\ outcome = "halt"
           /\ halted' = TRUE
           /\ UNCHANGED <<ctx, last, held>>
        \/ /\ outcome = "wild"
           /\ \E w \in WildPointers :
                /\ ctx' = [ctx EXCEPT ![c].pc = "done", ![c].ret = Some(w)]
                /\ last' = Call("alloc_obj", 0, Some(c), Some(w))
                /\ held' = Append(held, w)
           /\ UNCHANGED halted
    /\ UNCHANGED <<bitmap, mem, live, run, initFree, memmap, panicked, rt, lock>>
    /\ UNCHANGED <<pagemap, ranges, ops, intr, reads, cache, slabs, frees, caches>>

\* if curr_slab.free_objs == 0 { new_slab = Slab::new(self); ... }
ObjCheck(c) ==
    LET l == ctx[c] IN
    /\ ObjRuns(c, "check")
    /\ IF slabs[l.curr].free_objs = 0
       THEN \E g \in {SlabNew(HeapHere)} :
               /\ HeapDone([g EXCEPT !.slabs =
                              IF g.panic THEN @
                              ELSE [@ EXCEPT ![g.cache.slabs].next = g.cache.slabs]])
               /\ ctx' = [ctx EXCEPT ![c].pc = "salloc", ![c].curr = g.cache.slabs]
       ELSE /\ ctx' = [ctx EXCEPT ![c].pc = "salloc"]
            /\ UNCHANGED <<bitmap, mem, cache, slabs, panicked, live>>
    /\ UNCHANGED <<run, initFree, memmap, last, rt, lock, vmmVars, held, frees, caches>>

\* the return, with the MutexGuard (if any) dropped
ObjReturn(c, ptr) ==
    /\ ctx' = [ctx EXCEPT ![c].pc = "done", ![c].ret = Some(ptr)]
    /\ last' = Call("alloc_obj", 0, Some(c), Some(ptr))
    /\ held' = Append(held, ptr)

\* Slab::alloc: if self.free_objs == 0 { return null_mut(); }
ObjSlabCheck(c) ==
    LET l == ctx[c] IN
    /\ ObjRuns(c, "salloc")
    /\ IF slabs[l.curr].free_objs = 0
       THEN ObjReturn(c, Null)
       ELSE /\ ctx' = [ctx EXCEPT ![c].pc = "lock"]
            /\ UNCHANGED <<last, held>>
    /\ UNCHANGED <<bitmap, mem, live, run, initFree, memmap, panicked, rt, lock, vmmVars,
                   cache, slabs, frees, caches>>

\* let mut bitmap = self.bitmap.lock();  (spins while held)
ObjLock(c) ==
    LET l == ctx[c] IN
    /\ ObjRuns(c, "lock")
    /\ MutexTryLock(l.curr \in lock).ok
    /\ lock' = lock \cup {l.curr}
    /\ ctx' = [ctx EXCEPT ![c].pc = "scan"]
    /\ UNCHANGED <<pmmVars, rt, vmmVars, slabVars>>

\* for i in 0..OBJS_PER_SLAB { if !bitmap.is_set(i) { bitmap.set(i); ...
\* the loop up to the set, or to its end: null_mut()
ObjScan(c) ==
    LET l == ctx[c]
        i == FirstClear(slabs[l.curr].bitmap)
    IN  /\ ObjRuns(c, "scan")
        /\ IF i < 0
           THEN /\ ObjReturn(c, Null)
                /\ lock' = lock \ {l.curr}
                /\ UNCHANGED slabs
           ELSE /\ slabs' = [slabs EXCEPT ![l.curr].bitmap = BitmapSet(@, i)]
                /\ ctx' = [ctx EXCEPT ![c].pc = "count", ![c].i = i]
                /\ UNCHANGED <<last, held, lock>>
        /\ UNCHANGED <<bitmap, mem, live, run, initFree, memmap, panicked, rt, vmmVars,
                       cache, frees, caches>>

\* self.free_objs -= 1; return self.data.offset(i * self.object_size)
ObjCount(c) ==
    LET l == ctx[c] IN
    /\ ObjRuns(c, "count")
    /\ slabs' = [slabs EXCEPT ![l.curr].free_objs = @ - 1]
    /\ ObjReturn(c, slabs[l.curr].data + l.i * slabs[l.curr].object_size)
    /\ lock' = lock \ {l.curr}
    /\ UNCHANGED <<bitmap, mem, live, run, initFree, memmap, panicked, rt, vmmVars,
                   cache, frees, caches>>

NextObjConc ==
    \E c \in Contexts :
        \/ ObjCall(c)
        \/ ObjFind(c)
        \/ ObjFindNull(c)
        \/ ObjCheck(c)
        \/ ObjSlabCheck(c)
        \/ ObjLock(c)
        \/ ObjScan(c)
        \/ ObjCount(c)

SpecObjConc == InitObjConc /\ [][NextObjConc]_vars

----------------------------------------------------------------------------
(* SlabAllocator (mm/slab.rs): the Caches behind the kernel's GlobalAlloc.  *)
(* `caches` is the linked list that starts at SLAB_ALLOCATOR.caches, head   *)
(* first; the Slabs of all the Caches are in `slabs`.                       *)

\* physical frames below the highest usable address when slab::init runs
HeapFrames == 560
\* allocations held at once
MaxHeld == 1

\* the frame allocator, memory, cache list and slabs a call works on
Allocator(bm, m, cs, ss, panic) ==
    [bitmap |-> bm, mem |-> m, caches |-> cs, slabs |-> ss, panic |-> panic]

\* SlabAllocator::add_cache: the new Cache becomes the head of the list
add_cache(a, obj_size) ==
    IF a.panic THEN a
    ELSE Then(CacheNewIn(a.bitmap, a.mem, a.slabs, obj_size), LAMBDA h :
             IF h.panic THEN Allocator(h.bitmap, h.mem, a.caches, h.slabs, TRUE)
             ELSE Allocator(h.bitmap, h.mem, <<h.cache>> \o a.caches, h.slabs, FALSE))

\* the object sizes slab::init passes to add_cache, in the order of its calls
InitSizes == <<4096, 2048, 1024, 512, 256, 128, 64, 32, 16, 8>>

\* slab::init, from its k-th add_cache call on
RECURSIVE slab_init(_, _)
slab_init(a, k) ==
    IF k > Len(InitSizes) THEN a
    ELSE Then(add_cache(a, InitSizes[k]), LAMBDA b : slab_init(b, k + 1))

\* cache_for with `<=` for `<` in the loop test
CacheForStrict(cs, size) ==
    LET fit == {i \in 1..Len(cs) : cs[i].object_size > size}
    IN  IF fit = {} THEN None
        ELSE Some(CHOOSE i \in fit : \A j \in fit : i <= j)

\* cache_for falling back to the last Cache of the list
CacheForClamp(cs, size) ==
    LET fit == {i \in 1..Len(cs) : cs[i].object_size >= size}
    IN  IF fit = {} THEN Some(Len(cs))
        ELSE Some(CHOOSE i \in fit : \A j \in fit : i <= j)

\* SlabAllocator::cache_for: the first Cache of the list, from its head, whose
\* object_size is not below size
cache_for(cs, size) ==
    LET fit == {i \in 1..Len(cs) : cs[i].object_size >= size}
    IN  IF fit = {} THEN None
        ELSE Some(CHOOSE i \in fit : \A j \in fit : i <= j)

\* GlobalAlloc::alloc(layout) with layout.size() = size, the Cache found
\* having a Slab with a free slot: [heap, ptr]
GlobalAlloc_alloc(a, size) ==
    Then(cache_for(a.caches, size), LAMBDA found :
        IF found = None
        THEN [heap |-> Allocator(a.bitmap, a.mem, a.caches, a.slabs, TRUE), ptr |-> Null]
        ELSE Then(AllocObjAt(Heap(a.bitmap, a.mem, a.caches[Unwrap(found)], a.slabs, FALSE),
                             FindSlab(a.slabs, a.caches[Unwrap(found)].slabs)), LAMBDA r :
                 [heap |-> Allocator(r.heap.bitmap, r.heap.mem,
                                     [a.caches EXCEPT ![Unwrap(found)] = r.heap.cache],
                                     r.heap.slabs, r.heap.panic),
                  ptr |-> r.ptr]))

\* GlobalAlloc::dealloc(ptr, layout) with layout.size() = size
GlobalAlloc_dealloc(a, ptr, size) ==
    Then(cache_for(a.caches, size), LAMBDA found :
        IF found = None
        THEN Allocator(a.bitmap, a.mem, a.caches, a.slabs, TRUE)
        ELSE Then(FreeObjIn(Heap(a.bitmap, a.mem, a.caches[Unwrap(found)], a.slabs, FALSE),
                            ptr), LAMBDA h :
                 Allocator(h.bitmap, h.mem, [a.caches EXCEPT ![Unwrap(found)] = h.cache],
                           h.slabs, h.panic)))

\* layout sizes of the alloc calls: every size a Cache serves, and sizes
\* above the largest class
AllocSizes == (0..4097) \cup {8192}
\* layout sizes of the dealloc calls, and of the allocations given back
DeallocSizes == {8, 16, 4096}

\* the Cache of the list whose object size is `size`
CacheOfSize(cs, size) == cs[CHOOSE k \in 1..Len(cs) : cs[k].object_size = size]
\* the first page of its first Slab, and the pages of the Slab
SlabBase(cs, ss, size) == ss[CacheOfSize(cs, size).slabs].data - SlabHeaderSize
SlabPages(cs, size) == CacheOfSize(cs, size).pages_per_slab
\* pointers no alloc call returned: null, the Slab header, the byte behind
\* the last slot, the first bytes behind the last page of the Slab, and the
\* first slot of a Cache of another size class
ForeignPointers(cs, ss, size) ==
    {Null,
     SlabBase(cs, ss, size) + 8,
     SlabBase(cs, ss, size) + SlabHeaderSize + OBJS_PER_SLAB * size,
     SlabBase(cs, ss, size) + SlabPages(cs, size) * PAGE_SIZE + 8,
     IF size = 8 THEN SlabBase(cs, ss, 4096) + SlabHeaderSize
     ELSE SlabBase(cs, ss, 8) + SlabHeaderSize}

InitHeap ==
    /\ initFree = 1..(HeapFrames - 1)
    /\ \E a \in {slab_init(Allocator(PmmInit(HeapFrames, initFree),
                                     [f \in 0..(HeapFrames - 1) |-> DirtyFrame],
                                     <<>>, <<>>, FALSE), 1)} :
           /\ bitmap = a.bitmap
           /\ mem = a.mem
           /\ caches = a.caches
           /\ slabs = a.slabs
           /\ panicked = a.panic
           /\ live = {<<f, 1>> : f \in initFree \ FreeFrames(a.bitmap)}
    /\ run = {}
    /\ memmap = <<>>
    /\ last = Call("init", 0, None, None)
    /\ rt = [pc |-> "off"]
    /\ lock = FALSE
    /\ ctx = NoContext
    /\ pagemap = {} /\ ranges = <<>> /\ ops = 0 /\ NoFault
    /\ cache = <<>>
    /\ held = <<>>
    /\ frees = 0

AllocatorHere == Allocator(bitmap, mem, caches, slabs, FALSE)

AllocatorDone(a) ==
    /\ bitmap' = a.bitmap
    /\ mem' = a.mem
    /\ caches' = a.caches
    /\ slabs' = a.slabs
    /\ panicked' = a.panic
    /\ live' = live \cup {<<f, 1>> : f \in FreeFrames(bitmap) \ FreeFrames(a.bitmap)}

\* alloc(layout): a Box, Vec or String of the kernel asks for `size` bytes;
\* every size is tried on the allocator as slab::init left it, the sizes of
\* DeallocSizes also behind an earlier allocation
Allocate(size) ==
    /\ ~panicked /\ Len(held) < MaxHeld /\ frees = 0
    /\ held # <<>> => size \in DeallocSizes
    /\ \A k \in 1..Len(held) : held[k].size \in DeallocSizes
    /\ \E r \in {GlobalAlloc_alloc(AllocatorHere, size)} :
        /\ AllocatorDone(r.heap)
        /\ held' = IF r.heap.panic THEN held
                   ELSE Append(held, [ptr |-> r.ptr, size |-> size])
        /\ last' = Call("allocate", size, None,
                        IF r.heap.panic THEN None ELSE Some(r.ptr))
    /\ UNCHANGED <<run, initFree, memmap, callerVars, pagemap, ranges, ops, faultVars, cache, frees>>

\* dealloc(ptr, layout)
Deallocate(ptr, size) ==
    /\ ~panicked /\ frees < MaxSlabFrees
    /\ \A k \in 1..Len(held) : held[k].size \in DeallocSizes
    /\ AllocatorDone(GlobalAlloc_dealloc(AllocatorHere, ptr, size))
    /\ held' = SelectSeq(held, LAMBDA x : x.ptr # ptr)
    /\ frees' = frees + 1
    /\ last' = Call("deallocate", size, Some(ptr), None)
    /\ UNCHANGED <<run, initFree, memmap, callerVars, pagemap, ranges, ops, faultVars, cache>>

NextHeap ==
    \/ \E size \in AllocSizes : Allocate(size)
    \/ \E size \in DeallocSizes :
       \E ptr \in {held[k].ptr : k \in 1..Len(held)} \cup ForeignPointers(caches, slabs, size) :
           Deallocate(ptr, size)

SpecHeap == InitHeap /\ [][NextHeap]_vars

----------------------------------------------------------------------------
(* PmmBox (arch/x86_64/mm/pmm.rs): a scope that creates a box of n bytes,   *)
(* works on it and leaves, by its last statement or by an early return      *)

\* PmmBox::new(size): [ok, box, bitmap, mem]; a failed expect() panics
PmmBoxNew(bm, m, size) ==
    Then(PmmCalloc(bm, m, div_ceil(size, PAGE_SIZE)), LAMBDA r :
        IF ~IsSome(r.ret)
        THEN [ok |-> FALSE, box |-> None, bitmap |-> r.bitmap, mem |-> r.mem]
        ELSE [ok |-> TRUE,
              box |-> Some([data |-> higher_half(Unwrap(r.ret)),
                            page_cnt |-> div_ceil(size, PAGE_SIZE)]),
              bitmap |-> r.bitmap, mem |-> r.mem])

\* a drop that gives back the first page only
PmmBoxDropOnePage(bm, box) == PmmFree(bm, box.data, 1)

\* impl Drop for PmmBox: get().free(self.data as *mut u8, self.page_cnt)
PmmBoxDrop(bm, box) == PmmFree(bm, box.data, box.page_cnt)

\* byte lengths of the boxes
BoxSizes == {1, PAGE_SIZE, PAGE_SIZE + 1, 2 * PAGE_SIZE, 2 * PAGE_SIZE + 1}
\* the ways out of the scope
BoxPaths == {"end of scope", "early return"}

BoxFrames(box) == FramesOf(FreePage(box.data), box.page_cnt)

InitBox ==
    /\ initFree \in SUBSET AllFrames
    /\ bitmap = PmmInit(MemFrames, initFree)
    /\ mem = [f \in AllFrames |-> DirtyFrame]
    /\ live = {}
    /\ run = {}
    /\ memmap = <<>>
    /\ last = Call("init", 0, None, None)
    /\ panicked = FALSE
    /\ \E n \in BoxSizes :
          rt = [pc |-> "start", n |-> n, box |-> None, before |-> bitmap, inner |-> FALSE]
    /\ lock = FALSE
    /\ ctx = NoContext
    /\ NoVmm

\* let tmp_buffer = PmmBox::<u8>::new(bytes);
BoxNew ==
    /\ rt.pc = "start"
    /\ \E r \in {PmmBoxNew(bitmap, mem, rt.n)} :
        /\ bitmap' = r.bitmap
        /\ mem' = r.mem
        /\ panicked' = ~r.ok
        /\ rt' = [rt EXCEPT !.pc = IF r.ok THEN "scope" ELSE "failed", !.box = r.box]
        /\ live' = IF r.ok THEN {<<FreePage(Unwrap(r.box).data), Unwrap(r.box).page_cnt>>}
                   ELSE {}
        /\ last' = Call("PmmBox::new", rt.n, None, r.box)
    /\ UNCHANGED <<run, initFree, memmap, lock, ctx, vmmVars, slabVars>>

\* the scope stores data in the box, through as_mut_ptr() or deref_mut()
BoxWrite(f) ==
    /\ rt.pc = "scope"
    /\ f \in BoxFrames(Unwrap(rt.box))
    /\ mem' = [mem EXCEPT ![f] = DirtyFrame]
    /\ last' = Call("write", 0, Some(f), None)
    /\ UNCHANGED <<bitmap, live, run, initFree, memmap, panicked, callerVars, vmmVars, slabVars>>

\* the scope takes a frame of its own, which outlives the box
BoxScopeAlloc ==
    /\ rt.pc = "scope" /\ ~rt.inner
    /\ \E r \in {PmmAlloc(bitmap, 1)} :
        /\ IsSome(r.ret)
        /\ bitmap' = r.bitmap
        /\ live' = live \cup {<<PageOf(Unwrap(r.ret)), 1>>}
        /\ last' = Call("alloc", 1, None, r.ret)
    /\ rt' = [rt EXCEPT !.inner = TRUE]
    /\ UNCHANGED <<mem, run, initFree, memmap, panicked, lock, ctx, vmmVars, slabVars>>

\* the scope is left: the box is dropped
BoxDrop(path) ==
    /\ rt.pc = "scope"
    /\ \E r \in {PmmBoxDrop(bitmap, Unwrap(rt.box))} :
        /\ bitmap' = r.bitmap
        /\ panicked' = r.panic
    /\ live' = live \ {<<FreePage(Unwrap(rt.box).data), Unwrap(rt.box).page_cnt>>}
    /\ rt' = [rt EXCEPT !.pc = "dropped"]
    /\ last' = Call("drop", Unwrap(rt.box).page_cnt, Some(path), None)
    /\ UNCHANGED <<mem, run, initFree, memmap, lock, ctx, vmmVars, slabVars>>

NextBox ==
    \/ BoxNew
    \/ \E f \in AllFrames : BoxWrite(f)
    \/ BoxScopeAlloc
    \/ \E path \in BoxPaths : BoxDrop(path)

SpecBox == InitBox /\ [][NextBox]_vars

----------------------------------------------------------------------------
(* The scheduler (proc/scheduler.rs).  A thread is Rc<RefCell<Thread>>:     *)
(* regs are its saved registers, borrows the borrow flag of its RefCell     *)
(* (the number of Ref guards alive; no RefMut outlives its statement).      *)
(* rt = [running, runnable, regs, borrows, cpu]; cpu is what the processor  *)
(* executes with after the handler.                                         *)

MaxThreads == 3
Threads == 1..MaxThreads
\* InterruptContext::default() and two register files found at an interrupt
FreshRegs == 0
RegSamples == {1, 2}

\* sequences without repetition over a set of threads
Lineups(ts) ==
    {q \in UNION {[1..n -> ts] : n \in 0..Cardinality(ts)} :
        \A i, j \in DOMAIN q : i # j => q[i] # q[j]}

\* RefCell::borrow_mut succeeds only with no borrow alive, and panics otherwise
borrow_mut(flag) == flag = 0

\* the body of the reschedule handler entered with *regs = regs:
\* [s, outcome], outcome one of "switch", "halt", "panic".  The Ref taken by
\* borrow() on the new running thread is never dropped: Thread::switch loads
\* the thread's registers and does not come back (unreachable!() follows it).
reschedule(s, regs) ==
    IF s.runnable # <<>>
    THEN LET thread == Head(s.runnable)
             popped == [s EXCEPT !.runnable = Tail(@)]
         IN  IF IsSome(s.running) /\ ~borrow_mut(s.borrows[Unwrap(s.running)])
             THEN [s |-> popped, outcome |-> "panic"]
             ELSE LET queued ==
                          IF IsSome(s.running)
                          THEN [popped EXCEPT !.regs[Unwrap(s.running)] = regs,
                                              !.runnable = Append(@, Unwrap(s.running))]
                          ELSE popped
                  IN  [s |-> [queued EXCEPT !.running = Some(thread),
                                            !.borrows[thread] = @ + 1,
                                            !.cpu = queued.regs[thread]],
                       outcome |-> "switch"]
    ELSE IF IsSome(s.running) THEN [s |-> s, outcome |-> "halt"]
    ELSE [s |-> s, outcome |-> "panic"]

\* Scheduler::new(), then threads made by Thread::new put in the queue and
\* one of them, or none, made the running thread
InitSched ==
    /\ initFree = {}
    /\ bitmap = PmmInit(MemFrames, initFree)
    /\ mem = [f \in {} |-> ZeroFrame]
    /\ live = {}
    /\ run = {}
    /\ memmap = <<>>
    /\ last = Call("init", 0, None, None)
    /\ panicked = FALSE
    /\ \E running \in {None} \cup {Some(t) : t \in Threads} :
       \E runnable \in Lineups({t \in Threads : running # Some(t)}) :
           rt = [running |-> running, runnable |-> runnable,
                 regs |-> [t \in Threads |-> FreshRegs],
                 borrows |-> [t \in Threads |-> 0],
                 cpu |-> FreshRegs]
    /\ lock = FALSE
    /\ ctx = NoContext
    /\ NoVmm

\* one reschedule interrupt; the interrupted code had the registers regs
Reschedule(regs) ==
    /\ ~panicked /\ ~halted
    /\ \E r \in {reschedule(rt, regs)} :
        /\ rt' = r.s
        /\ panicked' = (r.outcome = "panic")
        /\ halted' = (r.outcome \in {"halt", "panic"})
        /\ last' = Call("reschedule", 0, Some(regs), Some(r.outcome))
    /\ UNCHANGED <<bitmap, mem, live, run, initFree, memmap, lock, ctx,
                   pagemap, ranges, ops, intr, reads, slabVars>>

NextSched == \E regs \in RegSamples : Reschedule(regs)

SpecSched == InitSched /\ [][NextSched]_vars

----------------------------------------------------------------------------
(* PageFlags::from called on the protections of mappings, one call after    *)
(* another; rt.calls keeps each argument with its result                    *)

\* conversions in one run
MaxCalls == 3
\* every MapProt built from NONE, READ, WRITE and EXEC
MapProts == SUBSET (PROT_READ \cup PROT_WRITE \cup PROT_EXEC)

InitFrom ==
    /\ initFree = {}
    /\ bitmap = PmmInit(MemFrames, initFree)
    /\ mem = [f \in {} |-> ZeroFrame]
    /\ live = {}
    /\ run = {}
    /\ memmap = <<>>
    /\ last = Call("init", 0, None, None)
    /\ panicked = FALSE
    /\ rt = [pc |-> "from", calls |-> <<>>]
    /\ lock = FALSE
    /\ ctx = NoContext
    /\ NoVmm

\* let flags = PageFlags::from(prot);
From(prot) ==
    /\ Len(rt.calls) < MaxCalls
    /\ \E flags \in {PageFlagsFrom(prot)} :
        /\ rt' = [rt EXCEPT !.calls = Append(@, [prot |-> prot, flags |-> flags])]
        /\ last' = Call("PageFlags::from", 0, Some(prot), Some(flags))
    /\ UNCHANGED <<bitmap, mem, live, run, initFree, memmap, panicked, lock, ctx,
                   vmmVars, slabVars>>

NextFrom == \E prot \in MapProts : From(prot)

SpecFrom == InitFrom /\ [][NextFrom]_vars

----------------------------------------------------------------------------
(* The life of one Bitmap (utils/bitmap.rs): created by new or around       *)
(* memory the caller supplies, then dropped                                 *)

\* Bitmap::new(size): [ok, bm, bitmap, mem]; bm is Bitmap(slice, size)
Bitmap_new(bm, m, size) ==
    Then(PmmCalloc(bm, m, div_ceil(size, PAGE_SIZE)), LAMBDA r :
        [ok |-> IsSome(r.ret),
         bm |-> IF IsSome(r.ret)
                THEN Some([data |-> higher_half(Unwrap(r.ret)), size |-> size])
                ELSE None,
         bitmap |-> r.bitmap, mem |-> r.mem])

\* Bitmap::from_raw_ptr(ptr, len)
Bitmap_from_raw_ptr(ptr, len) == [data |-> ptr, size |-> len]

\* impl Drop for Bitmap: get().free(self.0.as_mut_ptr(), div_ceil(self.1, PAGE_SIZE))
BitmapDrop(bm, b) == PmmFree(bm, b.data, div_ceil(b.size, PAGE_SIZE))

\* byte lengths of the Bitmaps
BitmapLens == {1, PAGE_SIZE, PAGE_SIZE + 1}

InitLife ==
    /\ initFree \in SUBSET AllFrames
    /\ bitmap = PmmInit(MemFrames, initFree)
    /\ mem = [f \in AllFrames |-> DirtyFrame]
    /\ live = {}
    /\ run = {}
    /\ memmap = <<>>
    /\ last = Call("init", 0, None, None)
    /\ panicked = FALSE
    /\ rt = [pc |-> "start", bm |-> None, owned |-> FALSE, before |-> bitmap]
    /\ lock = FALSE
    /\ ctx = NoContext
    /\ NoVmm

\* let b = Bitmap::new(size);
LifeNew(size) ==
    /\ rt.pc = "start"
    /\ \E r \in {Bitmap_new(bitmap, mem, size)} :
        /\ bitmap' = r.bitmap
        /\ mem' = r.mem
        /\ panicked' = ~r.ok
        /\ rt' = [rt EXCEPT !.pc = IF r.ok THEN "held" ELSE "failed",
                            !.bm = r.bm, !.owned = TRUE]
        /\ last' = Call("Bitmap::new", size, None, r.bm)
    /\ UNCHANGED <<live, run, initFree, memmap, lock, ctx, vmmVars, slabVars>>

\* let b = Bitmap::from_raw_ptr(ptr, len);  ptr is the direct-map address of frame f
LifeFromRawPtr(f, len) ==
    /\ rt.pc = "start"
    /\ \E b \in {Bitmap_from_raw_ptr(higher_half(PhysAddrNew(f * PAGE_SIZE)), len)} :
        /\ rt' = [rt EXCEPT !.pc = "held", !.bm = Some(b)]
        /\ last' = Call("Bitmap::from_raw_ptr", len, Some(f), Some(b))
    /\ UNCHANGED <<bitmap, mem, live, run, initFree, memmap, panicked, lock, ctx,
                   vmmVars, slabVars>>

\* b goes out of scope
LifeDrop ==
    /\ rt.pc = "held"
    /\ \E r \in {BitmapDrop(bitmap, Unwrap(rt.bm))} :
        /\ bitmap' = r.bitmap
        /\ panicked' = r.panic
    /\ rt' = [rt EXCEPT !.pc = "dropped"]
    /\ last' = Call("drop", 0, None, None)
    /\ UNCHANGED <<mem, live, run, initFree, memmap, lock, ctx, vmmVars, slabVars>>

NextLife ==
    \/ \E size \in BitmapLens : LifeNew(size)
    \/ \E f \in AllFrames, len \in BitmapLens : LifeFromRawPtr(f, len)
    \/ LifeDrop

SpecLife == InitLife /\ [][NextLife]_vars

----------------------------------------------------------------------------
(* pmm::init on the memory map the bootloader hands over.  An entry is      *)
(* [base, length, type] in bytes; the entries are sorted by base and do not *)
(* overlap, and the usable and bootloader-reclaimable ones are page aligned *)
(* (stivale2).                                                              *)

EntryTypes == {"Usable", "BootloaderReclaimable", "Kernel", "Reserved"}
\* the types whose peak counts for the size of the bitmap
Counted == {"BootloaderReclaimable", "Usable", "Kernel"}
\* the types the bitmap is carved from and whose frames are marked free
Allocatable == {"BootloaderReclaimable", "Usable"}

Entry(b, n, t) == [base |-> b * PAGE_SIZE, length |-> n * PAGE_SIZE, type |-> t]
EntrySamples ==
    {Entry(b, n, t) : b \in {0, 1, 4}, n \in {1, 3, MapFrames - 4}, t \in EntryTypes}
MemoryMaps ==
    {<<e>> : e \in EntrySamples}
        \cup {<<p[1], p[2]>> :
                p \in {q \in EntrySamples \X EntrySamples :
                            q[1].base + q[1].length <= q[2].base}}

\* first loop: the highest peak of the counted entries
Biggest(entries) ==
    LET peaks == {entries[i].base + entries[i].length :
                    i \in {j \in DOMAIN entries : entries[j].type \in Counted}}
    IN  IF peaks = {} THEN 0 ELSE CHOOSE x \in peaks : \A y \in peaks : y <= x

\* second loop: the entries the bitmap fits in
Fits(entries, bitmap_size) ==
    {i \in DOMAIN entries : /\ entries[i].type \in Allocatable
                            /\ entries[i].length >= bitmap_size}

\* third loop: page..page + length of every allocatable entry
MarkedFrames(entries) ==
    UNION {FramesOf(entries[i].base \div PAGE_SIZE, entries[i].length \div PAGE_SIZE) :
            i \in {j \in DOMAIN entries : entries[j].type \in Allocatable}}

\* pmm::init(entries, entries_num) over memory m
pmm_init(entries, m) ==
    LET biggest == Biggest(entries)
        bitmap_size == div_ceil(biggest \div PAGE_SIZE, 8)
        fits == Fits(entries, bitmap_size)
    IN  IF fits = {}
        THEN [panic |-> TRUE, entries |-> entries, bitmap_ptr |-> {},
              bitmap_size |-> bitmap_size, bitmap |-> <<>>, mem |-> m]
        ELSE LET i == CHOOSE x \in fits : \A y \in fits : x <= y
                 \* entry.base + PHYS_BASE: the base is below 2^47, no carry
                 bitmap_ptr == PhysAddrNew(entries[i].base) \cup PHYS_BASE
                 carved == [entries EXCEPT ![i].base = @ + bitmap_size,
                                           ![i].length = @ - bitmap_size]
             IN  [panic |-> FALSE, entries |-> carved, bitmap_ptr |-> bitmap_ptr,
                  bitmap_size |-> bitmap_size,
                  bitmap |-> SetFrames([b \in 0..(bitmap_size - 1) |-> 0],
                                       MarkedFrames(carved)),
                  mem |-> WriteBytesZero(m, bitmap_ptr, bitmap_size)]

InitBoot ==
    /\ memmap \in MemoryMaps
    /\ bitmap = <<>>
    /\ mem = [f \in 0..(MapFrames - 1) |-> DirtyFrame]
    /\ initFree = {}
    /\ live = {}
    /\ run = {}
    /\ last = Call("boot", 0, None, None)
    /\ panicked = FALSE
    /\ rt = [pc |-> "boot"]
    /\ lock = FALSE
    /\ ctx = NoContext
    /\ NoVmm

\* kmain calls pmm::init once, before anything allocates
BootInit ==
    /\ rt.pc = "boot" /\ ~panicked
    /\ \E r \in {pmm_init(memmap, mem)} :
        /\ panicked' = r.panic
        /\ memmap' = r.entries
        /\ bitmap' = r.bitmap
        /\ mem' = r.mem
        /\ initFree' = FreeFrames(r.bitmap)
        /\ rt' = [pc |-> "up", bitmap_ptr |-> r.bitmap_ptr, bitmap_size |-> r.bitmap_size]
    /\ last' = Call("init", 0, None, None)
    /\ UNCHANGED <<live, run, lock, ctx, vmmVars, slabVars>>

\* Pmm::alloc once PAGE_ALLOCATOR is set
BootAlloc(pages) == rt.pc = "up" /\ Alloc(pages)

NextBoot ==
    \/ BootInit
    \/ \E pages \in 1..MaxPages : BootAlloc(pages)

SpecBoot == InitBoot /\ [][NextBoot]_vars

----------------------------------------------------------------------------
(* Pmm::free called with any pointer and page count: nothing ties the       *)
(* arguments to an earlier alloc                                            *)

\* the pointer of the call: physical or higher-half alias, at the start of
\* its page or inside it
PtrForms == {[off |-> 0, alias |-> FALSE], [off |-> 0, alias |-> TRUE],
             [off |-> PAGE_SIZE \div 2, alias |-> TRUE]}
\* memory maps: everything usable; a reserved frame inside; one usable frame
FreeMaps == {0..(MemFrames - 1), (0..(MemFrames - 1)) \ {1}, {MemFrames - 1}}

InitFreeAny ==
    /\ initFree \in FreeMaps
    /\ bitmap = PmmInit(MemFrames, initFree)
    /\ mem = [f \in 0..(MemFrames - 1) |-> ZeroFrame]
    /\ live = {}
    /\ run = {}
    /\ memmap = <<>>
    /\ last = Call("init", 0, None, None)
    /\ panicked = FALSE
    /\ rt = [pc |-> "free", n |-> 0]
    /\ lock = FALSE
    /\ ctx = NoContext
    /\ NoVmm

FreeAny(page, off, pages_amnt, alias) ==
    LET addr == PhysAddrNew(page * PAGE_SIZE + off)
        ptr == IF alias THEN higher_half(addr) ELSE addr
        r == PmmFree(bitmap, ptr, pages_amnt)
    IN  /\ ~panicked
        /\ rt.n < MaxFrees
        /\ rt' = [rt EXCEPT !.n = @ + 1]
        /\ bitmap' = r.bitmap
        /\ panicked' = r.panic
        /\ live' = live \ {<<page, pages_amnt>>}
        /\ run' = {}
        /\ last' = Call("free", pages_amnt, Some(ptr), None)
        /\ UNCHANGED <<mem, initFree, memmap, lock, ctx, vmmVars, slabVars>>

\* one allocation is made first, the free calls follow
AllocFirst(pages) == rt.n = 0 /\ live = {} /\ Alloc(pages)

NextFreeAny ==
    \/ \E pages \in 1..MaxPages : AllocFirst(pages)
    \/ \E page \in 0..BitCount(bitmap), form \in PtrForms, pages_amnt \in 0..MaxPages :
            FreeAny(page, form.off, pages_amnt, form.alias)

SpecFreeAny == InitFreeAny /\ [][NextFreeAny]_vars

----------------------------------------------------------------------------
(* Reading the state for the properties *)

RangesDisjoint(S) ==
    \A a \in S, b \in S : a # b => FramesOf(a[1], a[2]) \cap FramesOf(b[1], b[2]) = {}

\* the step is a successful alloc or calloc call
Allocated == last' # last /\ last'.op \in {"alloc", "calloc"} /\ IsSome(last'.ret)
ReturnedPage == PageOf(Unwrap(last'.ret))
ReturnedFrames == FramesOf(ReturnedPage, last'.pages)

\* the lowest frame that starts a run of k free frames, or -1
RunStarts(bm, k) == {p \in 0..(BitCount(bm) - k) : FramesOf(p, k) \subseteq FreeFrames(bm)}
FirstFit(bm, k) ==
    IF RunStarts(bm, k) = {} THEN -1
    ELSE CHOOSE p \in RunStarts(bm, k) : \A q \in RunStarts(bm, k) : p <= q

----------------------------------------------------------------------------
(* Properties of the frame allocator *)

\* C1: the ranges returned by successive alloc calls with no free between
\* them are pairwise disjoint, and every frame of a returned range was free
\* (bit set) just before the call and is taken (bit clear) just after it.
C1_FreshDisjointRanges ==
    /\ [](RangesDisjoint(run))
    /\ [][Allocated =>
            \A f \in ReturnedFrames :
                /\ f \in FreeFrames(bitmap)
                /\ f \notin FreeFrames(bitmap')
                /\ \A a \in run : f \notin FramesOf(a[1], a[2])]_vars

C1_Witness ==
    /\ last.op = "alloc" /\ IsSome(last.ret)
    /\ Cardinality(run) >= 2
    /\ \E a \in run : a[2] >= 2

\* C2: while every allocation is freed at most once, with its own address and
\* frame count, a bit is set exactly when its frame was marked free at init
\* and lies in no live allocation.
C2_BitSetIffFree ==
    \A f \in 0..(BitCount(bitmap) - 1) :
        BitOf(bitmap, f) <=> (f \in initFree /\ f \notin LiveFrames)

C2_Witness ==
    /\ last.op = "free" /\ PHYS_BASE \subseteq Unwrap(last.arg)
    /\ live # {}
    /\ initFree \ LiveFrames # {}
    /\ initFree # 0..(MemFrames - 1)

\* C4: a successful alloc(k), k >= 1, returns the base of the lowest run of k
\* consecutive free frames, clears exactly those k bits and no other bit.
C4_FirstFit ==
    [][Allocated /\ last'.op = "alloc" =>
        /\ last'.pages >= 1
        /\ ReturnedPage = FirstFit(bitmap, last'.pages)
        /\ Unwrap(last'.ret) = ShiftLeft(Word(ReturnedPage), 12)
        /\ FreeFrames(bitmap') = FreeFrames(bitmap) \ ReturnedFrames
        /\ ReturnedFrames \subseteq FreeFrames(bitmap)]_vars

\* the allocation skipped a free frame below it that starts no run of k
C4_Witness ==
    /\ last.op = "alloc" /\ IsSome(last.ret) /\ last.pages = 2
    /\ \E f \in FreeFrames(bitmap) : f < PageOf(Unwrap(last.ret))

\* C3: alloc(k) returning A followed at once by free(A, k) leaves the bitmap
\* as it was before the alloc, and the alloc(k) issued next returns A again.
C3_AllocFreeRoundTrip ==
    /\ rt.pc \in {"allocated", "freed", "done"} => ~panicked
    /\ rt.pc = "allocated" => bitmap # rt.before
    /\ rt.pc = "freed" => bitmap = rt.before
    /\ rt.pc = "done" => last.ret = rt.a

C3_Witness ==
    /\ rt.pc = "done" /\ rt.k >= 2 /\ rt.alias
    /\ IsSome(last.ret) /\ PageOf(Unwrap(last.ret)) > 0

\* an alloc or calloc call (k >= 1) has just returned
Returned == last' # last /\ last'.op \in {"alloc", "calloc"} /\ last'.pages >= 1

\* C5: alloc(k), k >= 1, returns None exactly when the bitmap holds no run of
\* k consecutive free frames; a None return panics nothing and leaves the
\* bitmap as it was; calloc(k) returns None in the same cases and writes to
\* no frame.
C5_NoneIffNoRun ==
    [][Returned =>
        /\ (last'.ret = None) <=> (RunStarts(bitmap, last'.pages) = {})
        /\ last'.ret = None => bitmap' = bitmap /\ mem' = mem /\ ~panicked']_vars

\* free frames are left, yet no run of the length asked for
C5_Witness ==
    /\ last.op = "calloc" /\ last.ret = None /\ last.pages >= 2
    /\ FreeFrames(bitmap) # {}
    /\ \E f \in FreeFrames(bitmap) : ~FrameIsZero(mem, f)

\* C7: the k frames calloc(k) returns read as zero before the caller writes
\* to them, whatever they held before.
C7_CallocZeroed ==
    (last.op = "calloc" /\ IsSome(last.ret)) =>
        \A f \in FramesOf(PageOf(Unwrap(last.ret)), last.pages) :
            /\ FrameIsZero(mem, f)
            /\ f \notin FreeFrames(bitmap)

C7_Witness ==
    /\ last.op = "calloc" /\ IsSome(last.ret) /\ last.pages >= 2
    /\ \E f \in DOMAIN mem : ~FrameIsZero(mem, f)
    /\ Cardinality(live) >= 2

\* the frames context c has claimed so far: cleared by it or returned to it
Claimed(c) ==
    IF ctx[c].pc = "clear" THEN ctx[c].page..(ctx[c].p - 1)
    ELSE IF ctx[c].pc \in {"unlock", "done"} /\ IsSome(ctx[c].ret)
         THEN FramesOf(PageOf(Unwrap(ctx[c].ret)), ctx[c].pages)
         ELSE {}
InSection(c) == ctx[c].pc \in {"scan", "clear", "unlock"}

\* C6: the scan-and-clear of alloc is one critical section under the lock:
\* whatever the interleaving of two alloc calls (one of them possibly in an
\* interrupt handler), no call scans while the other has a run half cleared,
\* and the two calls never claim a common frame.
C6_AllocSerialized ==
    \A c \in DOMAIN ctx, d \in DOMAIN ctx :
        c # d =>
            /\ ~(InSection(c) /\ InSection(d))
            /\ InSection(c) => lock
            /\ Claimed(c) \cap Claimed(d) = {}
            /\ Claimed(c) \cap FreeFrames(bitmap) = {}
            /\ Claimed(c) \subseteq initFree

\* the handler's call went in while the task was waiting at the lock, and
\* both calls returned a range
C6_Witness ==
    /\ DOMAIN ctx = Contexts
    /\ rt.sameCore
    /\ \A c \in Contexts : ctx[c].pc = "done" /\ IsSome(ctx[c].ret) /\ ctx[c].pages >= 2
    /\ last.arg = Some("task")

\* a bitmap operation with an index inside the slice has just returned
BitmapStep(op) == last' # last /\ last'.op = op /\ ~panicked'
BitArg == Unwrap(last'.arg)
OthersKept ==
    \A j \in 0..(8 * BitmapSize(bitmap) - 1) :
        j # BitArg => (BitmapIsSet(bitmap', j) <=> BitmapIsSet(bitmap, j))

\* C8: for every index i below 8 * size: after set(i), is_set(i) is true;
\* after clear(i), is_set(i) is false; neither changes is_set(j), j # i.
C8_SetClearIsSet ==
    /\ [][BitmapStep("set") => BitmapIsSet(bitmap', BitArg) /\ OthersKept]_vars
    /\ [][BitmapStep("clear") => ~BitmapIsSet(bitmap', BitArg) /\ OthersKept]_vars

\* clear(i) in the second byte, on a byte with other bits set
C8_Witness ==
    /\ last.op = "clear" /\ ~panicked
    /\ Unwrap(last.arg) >= 8
    /\ bitmap[1] \notin {0, 255}

----------------------------------------------------------------------------
(* Reading an address space as the MMU does: nothing is allocated *)

\* the leaf entry of v, or None where an intermediate entry is not present
Lookup(m, root, v) ==
    LET e4 == ReadCell(m, root, pml4(v))
        e3 == ReadCell(m, remove_flags(e4), pdp(v))
        e2 == ReadCell(m, remove_flags(e3), pd(v))
    IN  IF e4 \cap PRESENT = {} THEN None
        ELSE IF e3 \cap PRESENT = {} THEN None
        ELSE IF e2 \cap PRESENT = {} THEN None
        ELSE Some(ReadCell(m, remove_flags(e2), pt(v)))

\* the frames holding the present entries of table t
TableChildren(m, t) ==
    IF t \notin DOMAIN m THEN {}
    ELSE {PageOf(remove_flags(m[t][c])) : c \in {x \in DOMAIN m[t] : 0 \in m[t][x]}}

\* the frames used as PDP, PD or page table of the address space's user half
TableFrames(m, root) ==
    LET l3 == {PageOf(remove_flags(m[PageOf(root)][c])) :
                  c \in {x \in DOMAIN m[PageOf(root)] : x < 256 /\ 0 \in m[PageOf(root)][x]}}
        l2 == UNION {TableChildren(m, t) : t \in l3}
        l1 == UNION {TableChildren(m, t) : t \in l2}
    IN  l3 \cup l2 \cup l1

\* the pages of [a, a + length) for a page-aligned a
PagesOfRange(a, length) ==
    {AddNat(a, k * PAGE_SIZE) : k \in 0..(div_ceil(length, PAGE_SIZE) - 1)}

PageAligned(a) == a \cap (0..11) = {}

\* the step is a call of `op` on the address space that returned
VmmCall(op) == ops' = ops + 1 /\ last'.op = op /\ ~panicked'

----------------------------------------------------------------------------
(* Properties of the virtual memory manager *)

\* C9: for a page-aligned physical address P below 2^52 and any flag set,
\* map_page(V, P, flags) followed by get_mapping(V) on the same address space
\* returns an entry whose phys_addr() is P and whose flag bits are exactly
\* `flags`; in particular MMAPED is absent unless it was in `flags`.
C9_MapThenGetMapping ==
    [][(/\ last.op = "map_page" /\ ~panicked
        /\ VmmCall("get_mapping")
        /\ last'.arg[1] = last.arg[1]
        /\ PageAligned(last.arg[2]) /\ last.arg[2] \subseteq 0..51)
       => LET entry == Unwrap(last'.ret)
          IN  /\ phys_addr(entry) = last.arg[2]
              /\ entry \cap PageFlagBits = last.arg[3]
              /\ entry = last.arg[2] \cup last.arg[3]
              /\ MMAPED \subseteq entry => MMAPED \subseteq last.arg[3]]_vars

C9_Witness ==
    /\ last.op = "get_mapping" /\ ~panicked /\ ops = 2
    /\ phys_addr(Unwrap(last.ret)) = {12, 51}
    /\ Unwrap(last.ret) \cap PageFlagBits = PRESENT \cup NX

\* C10: when mmap(Some(A), L, prot, flags, fd, offset) with A page-aligned
\* returns, every page of [A, A+L) has a leaf entry with MMAPED set, physical
\* address 0 and PRESENT clear; every frame the call allocated is a page
\* table (no data frame); and the range list is the old list with the one
\* record (A, L, prot, flags, offset, fd) appended at its end.
C10_MmapLazyLeaves ==
    [][(/\ VmmCall("mmap")
        /\ IsSome(last'.arg[1])
        /\ PageAligned(Unwrap(last'.arg[1])))
       => LET A == Unwrap(last'.arg[1])
              L == last'.pages
              prot == last'.arg[2]
              backing == last'.arg[3]
          IN  /\ \A page \in PagesOfRange(A, L) :
                    LET e == Lookup(mem', pagemap', page)
                    IN  /\ IsSome(e)
                        /\ MMAPED \subseteq Unwrap(e)
                        /\ phys_addr(Unwrap(e)) = {}
                        /\ Unwrap(e) \cap PRESENT = {}
              /\ FreeFrames(bitmap) \ FreeFrames(bitmap')
                    \subseteq TableFrames(mem', pagemap')
              /\ ranges' = Append(ranges, VirtMemoryRange(A, L, prot, backing[1],
                                                         backing[3], backing[2]))]_vars

C10_Witness ==
    /\ last.op = "mmap" /\ ~panicked
    /\ last.arg[1] = Some(VA(0, 0, 0, 511)) /\ last.pages = PAGE_SIZE + 1
    /\ Len(ranges) = 2
    /\ Lookup(mem, pagemap, VA(0, 0, 1, 0)) = Some(MMAPED \cup NX)

\* [r.base, r.base + r.length) contains a
RangeContains(r, a) == ~WordLess(a, RangeStart(r)) /\ WordLess(a, RangeEnd(r))
RangesOverlap(r1, r2) ==
    WordLess(RangeStart(r1), RangeEnd(r2)) /\ WordLess(RangeStart(r2), RangeEnd(r1))

\* C11: in every state reachable by mmap calls on one address space (with or
\* without a hint, with or without MAP_FIXED) no two entries of the range list
\* overlap: [r1.base, r1.base+r1.length) and [r2.base, r2.base+r2.length) are
\* disjoint for entries at different positions.
C11_RangesNeverOverlap ==
    \A i \in 1..Len(ranges), j \in 1..Len(ranges) :
        i # j => ~RangesOverlap(ranges[i], ranges[j])

\* C12: get_range(a) returns a range r with r.base <= a < r.base + r.length
\* whenever the list holds one (also for a = r.base), and None exactly when no
\* range contains a (also for a = r.base + r.length).
C12_GetRangeHalfOpen ==
    last.op = "get_range" =>
        LET a == last.arg[1]
            holders == {i \in 1..Len(ranges) : RangeContains(ranges[i], a)}
        IN  /\ holders # {} => IsSome(last.ret) /\ RangeContains(Unwrap(last.ret), a)
            /\ holders = {} <=> last.ret = None

----------------------------------------------------------------------------
(* Properties of the page-fault handler *)

\* the leaf entry of v as the MMU reads it; 0 where a table is missing
LeafOf(m, root, v) ==
    IF Lookup(m, root, v) = None THEN {} ELSE Unwrap(Lookup(m, root, v))
PageBase(a) == a \ (0..11)
\* a lies in a page of the range
InPagesOf(r, a) == PageBase(a) \in PagesOfRange(RangeStart(r), r.length)
IsAnon(r) == Contains(r.flags, MAP_ANONYMOUS)
IsPrivateFile(r) == ~IsAnon(r) /\ Contains(r.flags, MAP_PRIVATE) /\ IsSome(r.fd)
\* the ranges of a kind that hold the page of a
RangesAt(a, Kind(_)) == {i \in 1..Len(ranges) : Kind(ranges[i]) /\ InPagesOf(ranges[i], a)}

\* the step is one run of the page-fault handler
FaultStep == ops' = ops + 1 /\ last'.op = "page_fault"
Cr2 == last'.arg[1]
Outcome == Unwrap(last'.ret)
NewFrames == FreeFrames(bitmap) \ FreeFrames(bitmap')
LazyBefore == MMAPED \subseteq LeafOf(mem, pagemap, Cr2)
ResidentBefore ==
    /\ PRESENT \subseteq LeafOf(mem, pagemap, Cr2)
    /\ LeafOf(mem, pagemap, Cr2) \cap MMAPED = {}

\* C13: for a fault address in a page of an anonymous lazily-backed range with
\* protection prot, the handler allocates exactly one zeroed frame F and
\* returns; afterwards the leaf has physical address F, PRESENT set, MMAPED
\* clear, WRITABLE when prot has WRITE, USERMODE when prot has READ and NX
\* clear when prot has EXEC.
C13_AnonFaultMapsFrame ==
    [][(FaultStep /\ LazyBefore /\ FreeFrames(bitmap) # {})
       => \A i \in RangesAt(Cr2, IsAnon) :
            LET prot == ranges[i].prot
                leaf == LeafOf(mem', pagemap, Cr2)
            IN  /\ Outcome = "return"
                /\ Cardinality(NewFrames) = 1
                /\ \A f \in NewFrames :
                      /\ FrameIsZero(mem', f)
                      /\ phys_addr(leaf) = PhysAddrNew(f * PAGE_SIZE)
                /\ PRESENT \subseteq leaf
                /\ leaf \cap MMAPED = {}
                /\ Contains(prot, PROT_WRITE) => WRITABLE \subseteq leaf
                /\ Contains(prot, PROT_READ) => USERMODE \subseteq leaf
                /\ Contains(prot, PROT_EXEC) => leaf \cap NX = {}]_vars

\* C14: over the handler's invocations on one address space at most one frame
\* is allocated for a page of an anonymous range: a frame is allocated only
\* while the page is lazily backed, and that makes it resident; once it is
\* resident, a further invocation for any address of the page allocates no
\* frame and leaves the leaf entry as it is.
C14_ResidentPageNoSecondFrame ==
    [][(FaultStep /\ RangesAt(Cr2, IsAnon) # {})
       => /\ ResidentBefore =>
                /\ NewFrames = {}
                /\ LeafOf(mem', pagemap, Cr2) = LeafOf(mem, pagemap, Cr2)
          /\ NewFrames # {} =>
                /\ LazyBefore
                /\ Cardinality(NewFrames) = 1
                /\ PRESENT \subseteq LeafOf(mem', pagemap, Cr2)
                /\ LeafOf(mem', pagemap, Cr2) \cap MMAPED = {}]_vars

C14_Witness ==
    /\ last.op = "page_fault" /\ last.arg[1] = AddNat(FaultBase, 200)
    /\ last.ret = Some("halt") /\ ops = 2
    /\ IsAnon(ranges[1])
    /\ PRESENT \subseteq LeafOf(mem, pagemap, FaultBase)
    /\ Cardinality(live) = 5

\* the reads the step issued
NewReads == SubSeq(reads', Len(reads) + 1, Len(reads'))
\* byte p of frame f
ByteAt(m, f, p) ==
    LET cell == IF p \div 8 \in DOMAIN m[f] THEN m[f][p \div 8] ELSE {}
    IN  Value(ShiftRight(cell, 8 * (p % 8)) \cap (0..7))
FileByteAt(o) == IF o \in DOMAIN FileData THEN FileData[o] ELSE 0
\* fault_page - range_base_page
PageIndex(r, a) == PageOf(PageBase(a)) - PageOf(PageBase(RangeStart(r)))

\* C15: a fault on page index n of a private file-backed lazily-backed range
\* issues exactly one file read, into the frame allocated by the handler, at
\* file offset n*4096 + range.offset, with byte count 4096 when
\* (n+1)*4096 <= range.length and range.length mod 4096 otherwise.
C15_PrivateFaultOneRead ==
    [][(FaultStep /\ LazyBefore /\ FreeFrames(bitmap) # {})
       => \A i \in RangesAt(Cr2, IsPrivateFile) :
            LET r == ranges[i]
                n == PageIndex(r, Cr2)
            IN  /\ Len(NewReads) = 1
                /\ NewReads[1].fd = Unwrap(r.fd)
                /\ Cardinality(NewFrames) = 1
                /\ PageOf(lower_half(NewReads[1].buffer)) \in NewFrames
                /\ lower_half(NewReads[1].buffer) \cap (0..11) = {}
                /\ NewReads[1].offset = n * 4096 + r.offset
                /\ NewReads[1].cnt = IF (n + 1) * 4096 <= r.length
                                     THEN 4096 ELSE r.length % 4096]_vars

\* C16: after the handler resolves a fault on a private file-backed page and
\* returns, the page is resident: its leaf holds the physical address of the
\* frame that received the file bytes, with PRESENT set and MMAPED clear; the
\* frame's first `count` bytes are the file's bytes from the read offset and
\* the rest are zero.
C16_PrivateFaultResident ==
    [][(FaultStep /\ LazyBefore /\ Outcome = "return")
       => \A i \in RangesAt(Cr2, IsPrivateFile) :
            LET leaf == LeafOf(mem', pagemap, Cr2)
            IN  /\ Len(NewReads) = 1
                /\ phys_addr(leaf) = lower_half(NewReads[1].buffer)
                /\ PRESENT \subseteq leaf
                /\ leaf \cap MMAPED = {}
                /\ \A p \in 0..(PAGE_SIZE - 1) :
                      ByteAt(mem', PageOf(phys_addr(leaf)), p) =
                          IF p < NewReads[1].cnt
                          THEN FileByteAt(NewReads[1].offset + p) ELSE 0]_vars

\* C17: when the leaf entry at the faulting address is not marked MMAPED the
\* handler halts the processor: it does not return to the faulting
\* instruction, does not re-enable interrupts, and the leaf entry of the
\* faulting page is what it was (no frame is mapped there).
C17_GenuineFaultHalts ==
    [][(FaultStep /\ ~LazyBefore)
       => /\ halted'
          /\ Outcome # "return"
          /\ ~intr'
          /\ reads' = reads
          /\ LeafOf(mem', pagemap, Cr2) = LeafOf(mem, pagemap, Cr2)]_vars

C17_Witness ==
    /\ last.op = "page_fault" /\ last.arg[1] = VA(0, 0, 1, 0)
    /\ last.ret = Some("halt") /\ halted /\ ~panicked /\ ~intr
    /\ LeafOf(mem, pagemap, VA(0, 0, 1, 0)) = {}
    /\ Lookup(mem, pagemap, VA(0, 0, 1, 0)) # None

\* C18: a fault on a lazily-backed page whose range is neither anonymous nor
\* private is fatal: the handler halts and does not return to the faulting
\* instruction with the page still lazily backed.
C18_UnhandledRangeFatal ==
    [][(FaultStep /\ LazyBefore)
       => \A i \in 1..Len(ranges) :
            (/\ get_range(ranges, Cr2) = Some(ranges[i])
             /\ ~IsAnon(ranges[i])
             /\ ~Contains(ranges[i].flags, MAP_PRIVATE))
            => /\ halted'
               /\ ~(Outcome = "return" /\ MMAPED \subseteq LeafOf(mem', pagemap, Cr2))]_vars

----------------------------------------------------------------------------
(* Properties of the slab allocator *)

\* the number of set bits among the first OBJS_PER_SLAB bits of a Slab's bitmap
SetBits(slab) == Cardinality({i \in 0..(OBJS_PER_SLAB - 1) : BitOf(slab.bitmap, i)})
\* the object_size bytes of two objects share no byte
ExtentsDisjoint(p, q, size) == p + size <= q \/ q + size <= p

\* C19: allocating OBJS_PER_SLAB + 1 objects from one Cache without freeing
\* any completes, leaves the Cache with at least two Slabs, and the pointers
\* returned are pairwise distinct with non-overlapping object_size extents.
C19_ExhaustionGrows ==
    frees = 0 =>
        /\ ~halted /\ ~panicked
        /\ Len(held) = OBJS_PER_SLAB + 1 =>
              /\ cache.slab_count >= 2
              /\ \A i \in 1..Len(held), j \in 1..Len(held) :
                    i # j => ExtentsDisjoint(held[i], held[j], cache.object_size)

\* C20 as claimed: in every state reachable by slab allocations and matching
\* deallocations, for every Slab the number of set bits among the first
\* OBJS_PER_SLAB bits of its bitmap equals its free_objs counter.
C20_SetBitsEqualFree ==
    \A i \in 1..Len(slabs) : SetBits(slabs[i]) = slabs[i].free_objs

\* C20 as amended: in every state reachable by slab allocations and matching
\* deallocations, for every Slab the number of set bits among the first
\* OBJS_PER_SLAB bits of its bitmap equals OBJS_PER_SLAB minus its free_objs
\* counter (a set bit marks a slot in use).
C20_SetBitsEqualUsed ==
    \A i \in 1..Len(slabs) : SetBits(slabs[i]) = OBJS_PER_SLAB - slabs[i].free_objs

C20_Witness ==
    /\ last.op = "free_obj" /\ ~panicked /\ frees = 1
    /\ Len(slabs) = 1 /\ slabs[1].free_objs = 1
    /\ ~BitOf(slabs[1].bitmap, 0) /\ BitOf(slabs[1].bitmap, OBJS_PER_SLAB - 1)

----------------------------------------------------------------------------
(* Properties of the SlabAllocator *)

\* the size classes
Ladder == {2^k : k \in 3..12}
\* the smallest size class that is not below size
ClassOf(size) == CHOOSE c \in Ladder : c >= size /\ \A d \in Ladder : d >= size => c <= d
\* the Slabs on the list that starts at Slab i
RECURSIVE SlabChain(_, _)
SlabChain(ss, i) == IF i = Null THEN {} ELSE {i} \cup SlabChain(ss, ss[i].next)
\* the Slabs of the Cache whose object size is c
SlabsOfClass(cs, ss, c) ==
    UNION {SlabChain(ss, cs[k].slabs) : k \in {x \in 1..Len(cs) : cs[x].object_size = c}}
\* the step is a call of the allocator
HeapStep(op) == last'.op = op /\ (held' # held \/ frees' # frees \/ panicked' # panicked)

\* C21: after slab::init, allocate(size) for every size in 0..=4096 is served
\* by the Cache whose object size is the smallest of the ladder 8, 16, ...,
\* 4096 that is >= size, never by a larger one: the pointer is a slot of a Slab
\* of that Cache, that Slab has one free object less, no other Slab changes.
C21_SmallestFittingCache ==
    /\ [](last.op = "init" =>
            /\ Len(caches) = 10
            /\ {caches[k].object_size : k \in 1..Len(caches)} = Ladder)
    /\ [][(HeapStep("allocate") /\ last'.pages <= 4096)
          => /\ ~panicked'
             /\ \E i \in SlabsOfClass(caches, slabs, ClassOf(last'.pages)) :
                   LET ptr == Unwrap(last'.ret)
                   IN  /\ slabs[i].object_size = ClassOf(last'.pages)
                       /\ ptr >= slabs[i].data
                       /\ ptr < slabs[i].data + OBJS_PER_SLAB * slabs[i].object_size
                       /\ (ptr - slabs[i].data) % slabs[i].object_size = 0
                       /\ slabs'[i].free_objs = slabs[i].free_objs - 1
                       /\ \A j \in 1..Len(slabs) : j # i => slabs'[j] = slabs[j]]_vars

\* 9 bytes came from the first slot of the 16-byte Cache
C21_Witness ==
    /\ last.op = "allocate" /\ last.pages = 9 /\ ~panicked
    /\ held = <<[ptr |-> Unwrap(last.ret), size |-> 9]>>
    /\ \E i \in SlabsOfClass(caches, slabs, 16) :
          /\ held[1].ptr = slabs[i].data
          /\ slabs[i].free_objs = OBJS_PER_SLAB - 1
    /\ \A i \in SlabsOfClass(caches, slabs, 32) : slabs[i].free_objs = OBJS_PER_SLAB

\* C22: allocate(size) with size > 4096 fails fatally (panics) without
\* allocating any frame or changing any cache or slab state.
C22_TooLargePanics ==
    [][(HeapStep("allocate") /\ last'.pages > 4096)
       => /\ panicked'
          /\ last'.ret = None
          /\ bitmap' = bitmap /\ mem' = mem
          /\ caches' = caches /\ slabs' = slabs /\ held' = held]_vars

C22_Witness ==
    /\ last.op = "allocate" /\ last.pages = 4097 /\ panicked
    /\ Len(caches) = 10 /\ held = <<>>
    /\ \A i \in 1..Len(slabs) : slabs[i].free_objs = OBJS_PER_SLAB

\* ptr lies in the pages of a Slab of the Cache at position c of the list
InSlabOf(cs, ss, c, ptr) ==
    \E i \in SlabChain(ss, cs[c].slabs) :
        /\ ptr >= ss[i].data - SlabHeaderSize
        /\ ptr < ss[i].data - SlabHeaderSize + cs[c].pages_per_slab * PAGE_SIZE

\* C23: Cache::free_obj(ptr) with a pointer that lies in no Slab of that Cache
\* panics and leaves every Slab's bitmap and free_objs counter unchanged, also
\* when the pointer belongs to a Slab of a different size class.
C23_ForeignFreePanics ==
    [][(/\ HeapStep("deallocate")
        /\ IsSome(cache_for(caches, last'.pages))
        /\ ~InSlabOf(caches, slabs, Unwrap(cache_for(caches, last'.pages)),
                     Unwrap(last'.arg)))
       => /\ panicked'
          /\ slabs' = slabs]_vars

----------------------------------------------------------------------------
(* Properties of PmmBox *)

\* C24: creating a PmmBox for n >= 1 bytes takes exactly ceil(n/4096)
\* contiguous zeroed frames from the PMM, and when the box goes out of scope
\* (on every path, early returns included) exactly those frames are freed, so
\* the bitmap after the drop equals the bitmap before the creation.
C24_BoxTakesAndReturns ==
    /\ [][(rt.pc = "start" /\ rt'.pc = "scope")
          => LET box == Unwrap(rt'.box)
             IN  /\ box.page_cnt = (rt.n + 4095) \div 4096
                 /\ FreeFrames(bitmap) \ FreeFrames(bitmap') = BoxFrames(box)
                 /\ FreeFrames(bitmap') \subseteq FreeFrames(bitmap)
                 /\ Cardinality(BoxFrames(box)) = box.page_cnt
                 /\ \A f \in BoxFrames(box) : FrameIsZero(mem', f)]_vars
    /\ [][(rt.pc = "scope" /\ rt'.pc = "dropped")
          => /\ ~panicked'
             /\ BoxFrames(Unwrap(rt.box)) \cap FreeFrames(bitmap) = {}
             /\ FreeFrames(bitmap') = FreeFrames(bitmap) \cup BoxFrames(Unwrap(rt.box))]_vars
    /\ []((rt.pc = "dropped" /\ ~rt.inner) => bitmap = rt.before)

\* a box of three frames, written to, dropped by an early return
C24_Witness ==
    /\ rt.pc = "dropped" /\ ~rt.inner /\ ~panicked
    /\ rt.n = 2 * PAGE_SIZE + 1 /\ Unwrap(rt.box).page_cnt = 3
    /\ last.op = "drop" /\ last.arg = Some("early return")
    /\ \E f \in BoxFrames(Unwrap(rt.box)) : ~FrameIsZero(mem, f)
    /\ \E f \in FreeFrames(bitmap) : f \notin BoxFrames(Unwrap(rt.box))
    /\ FreePage(Unwrap(rt.box).data) > 0

----------------------------------------------------------------------------
(* Termination of the frame allocator's calls *)

\* C25: every PMM entry point eventually returns to its caller on the single
\* core, also when it is called from an interrupt handler (the page-fault
\* handler calls calloc) that preempted code inside the PMM's locked
\* scan-and-clear section: no call spins on the lock forever.
C25_PmmCallsReturn ==
    \A c \in Contexts : (ctx[c].pc = "lock") ~> (ctx[c].pc = "done")

----------------------------------------------------------------------------
(* Further properties of the virtual memory manager *)

\* C26: get_mapping(V) is read-only for every V, also for an address none of
\* whose intermediate tables exist: it allocates no frame from the PMM and
\* changes no entry of any page-table level.
C26_GetMappingReadOnly ==
    [][(ops' = ops + 1 /\ last'.op = "get_mapping")
       => /\ bitmap' = bitmap
          /\ mem' = mem]_vars

\* C27: in every state reachable by mmap calls and page-fault resolutions,
\* every address whose leaf entry carries the MMAPED bit is contained in a
\* range found by get_range, the range's base address and the addresses of a
\* final partial page included, so the handler's "marked as mmaped but
\* doesn't belong to any range" path is never taken.
C27_LazyPagesHaveRange ==
    /\ [](\A a \in FaultSamples :
             MMAPED \subseteq LeafOf(mem, pagemap, a) => IsSome(get_range(ranges, a)))
    /\ [][(FaultStep /\ LazyBefore) => IsSome(get_range(ranges, Cr2))]_vars

\* C28: when the faulting page's leaf entry is marked MMAPED but get_range
\* finds no range for the faulting address, the handler stops fatally before
\* it allocates any frame or rewrites any leaf entry.
C28_NoRangeStopsFirst ==
    [][(FaultStep /\ LazyBefore /\ get_range(ranges, Cr2) = None)
       => /\ Outcome = "panic"
          /\ halted' /\ panicked'
          /\ NewFrames = {}
          /\ bitmap' = bitmap
          /\ mem' = mem
          /\ reads' = reads]_vars

\* the fault at the first byte of the range: the leaf is still lazy
C28_Witness ==
    /\ last.op = "page_fault" /\ last.arg[1] = FaultBase
    /\ last.ret = Some("panic") /\ halted /\ intr
    /\ Len(ranges) = 1 /\ RangeContains(ranges[1], FaultBase)
    /\ LeafOf(mem, pagemap, FaultBase) = MMAPED \cup NX
    /\ Cardinality(live) = 4

----------------------------------------------------------------------------
(* Properties of pmm::init *)

\* the frames that overlap the bytes [bitmap_ptr, bitmap_ptr + bitmap_size)
BitmapOwnFrames ==
    LET b == Value(lower_half(rt.bitmap_ptr))
    IN  (b \div PAGE_SIZE)..((b + rt.bitmap_size - 1) \div PAGE_SIZE)

\* C29: once pmm::init has returned, no frame that overlaps the bitmap's own
\* bytes is marked free, whatever the size of the bitmap.
C29_BitmapFramesNotFree ==
    (rt.pc = "up" /\ ~panicked) => BitmapOwnFrames \cap initFree = {}

\* a later alloc hands out the frame the bitmap lives in
C29_BitmapHandedOut ==
    /\ rt.pc = "up" /\ last.op = "alloc" /\ IsSome(last.ret)
    /\ FramesOf(PageOf(Unwrap(last.ret)), last.pages) \cap BitmapOwnFrames # {}

----------------------------------------------------------------------------
(* Properties of Pmm::free *)

\* the frame the pointer of the call lies in, and the frames of the call
FreedPage == Value(lower_half(Unwrap(last'.arg))) \div PAGE_SIZE
FreedFrames == FramesOf(FreedPage, last'.pages)
FreeStep == last'.op = "free" /\ ~panicked /\ vars' # vars

\* C30: free(A, k) with the frames [A/4096, A/4096 + k) inside the bitmap
\* sets exactly their bits, for A physical or its higher-half alias, whatever
\* the bits were: no other bit changes, nothing panics, and the same call
\* made again leaves the bitmap as it is.
C30_FreeSetsExactlyItsFrames ==
    [][(FreeStep /\ FreedFrames \subseteq 0..(BitCount(bitmap) - 1)) =>
            /\ ~panicked'
            /\ BitCount(bitmap') = BitCount(bitmap)
            /\ FreeFrames(bitmap') = FreeFrames(bitmap) \cup FreedFrames
            /\ PmmFree(bitmap', Unwrap(last'.arg), last'.pages)
                    = [bitmap |-> bitmap', panic |-> FALSE]]_vars

\* frames that init left taken and no alloc ever returned are free after a
\* free through the higher-half alias of a pointer inside the page
C30_Witness ==
    /\ last.op = "free" /\ ~panicked /\ last.pages = 2
    /\ PHYS_BASE \subseteq Unwrap(last.arg)
    /\ Value(lower_half(Unwrap(last.arg))) % PAGE_SIZE # 0
    /\ LET page == Value(lower_half(Unwrap(last.arg))) \div PAGE_SIZE
       IN  /\ FramesOf(page, 2) \cap initFree = {}
           /\ FramesOf(page, 2) \subseteq FreeFrames(bitmap)

----------------------------------------------------------------------------
(* Properties of the Bitmap at the end of its slice *)

EdgeStep == last.op = "init" /\ last'.op # "init"

\* C31: set, clear, toggle and is_set with a bit index >= 8 * size panic and
\* change no byte of the slice and not the byte behind it; Pmm::free with a
\* frame past the bits of the bitmap panics, the byte behind the slice and
\* the bits of the frames the call does not name stay as they were.
C31_OutOfRangeFailsFast ==
    /\ [][(EdgeStep /\ last'.op \in BitOps /\ Unwrap(last'.arg) >= 8 * BitmapSize(bitmap)) =>
            /\ panicked'
            /\ bitmap' = bitmap
            /\ rt'.behind = rt.behind]_vars
    /\ [][(EdgeStep /\ last'.op = "free"
                /\ ~(FreedFrames \subseteq 0..(BitCount(bitmap) - 1))) =>
            /\ panicked'
            /\ rt'.behind = rt.behind
            /\ BitCount(bitmap') = BitCount(bitmap)
            /\ \A f \in 0..(BitCount(bitmap) - 1) :
                    f \notin FreedFrames => (BitOf(bitmap', f) <=> BitOf(bitmap, f))]_vars

\* set was called with the first index past the slice, whose bit in the byte
\* behind the slice is clear
C31_Witness ==
    /\ last.op = "set" /\ panicked
    /\ Unwrap(last.arg) = 8 * BitmapSize(bitmap)
    /\ rt.behind % 2 = 0

----------------------------------------------------------------------------
(* Properties of map_page *)

\* the PML4, PDP and PD entries on the walk of v, as the MMU reads them; an
\* entry below one that is not present reads as zero
PathEntries(m, root, v) ==
    LET e4 == ReadCell(m, root, pml4(v))
        e3 == IF e4 \cap PRESENT = {} THEN {} ELSE ReadCell(m, remove_flags(e4), pdp(v))
        e2 == IF e3 \cap PRESENT = {} THEN {} ELSE ReadCell(m, remove_flags(e3), pd(v))
    IN  <<e4, e3, e2>>
\* the index the walk of v uses in the table the k-th entry points to
PathIndexBelow(v, k) == <<pdp(v), pd(v), pt(v)>>[k]

\* C32: a map_page(V, phys_addr, flags) call that returns takes one frame
\* from the PMM for each PML4, PDP and PD entry on the walk of V that was not
\* present, three at most; each such entry now holds the new frame's address
\* with PRESENT | WRITABLE | USERMODE and the new table is zero apart from
\* the entry the walk uses in it; an entry that was present is unchanged; the
\* leaf holds phys_addr | flags, so for a page-aligned phys_addr its flag bits
\* are `flags`; no other frame of memory changes.
C32_MapPageBuildsMissingTables ==
    [][VmmCall("map_page") =>
        LET v == last'.arg[1]
            before == PathEntries(mem, pagemap, v)
            after == PathEntries(mem', pagemap, v)
            missing == {k \in 1..3 : before[k] \cap PRESENT = {}}
            taken == FreeFrames(bitmap) \ FreeFrames(bitmap')
            tables == {PageOf(remove_flags(after[k])) : k \in 1..3}
        IN  /\ FreeFrames(bitmap') \subseteq FreeFrames(bitmap)
            /\ Cardinality(taken) = Cardinality(missing)
            /\ taken = {PageOf(remove_flags(after[k])) : k \in missing}
            /\ \A k \in missing :
                /\ after[k] = remove_flags(after[k]) \cup PRESENT \cup WRITABLE \cup USERMODE
                /\ DOMAIN mem'[PageOf(remove_flags(after[k]))] \subseteq {PathIndexBelow(v, k)}
            /\ \A k \in (1..3) \ missing : after[k] = before[k]
            /\ Lookup(mem', pagemap, v) = Some(last'.arg[2] \cup last'.arg[3])
            /\ PageAligned(last'.arg[2]) =>
                    Unwrap(Lookup(mem', pagemap, v)) \cap ((0..11) \cup {63}) = last'.arg[3]
            /\ \A f \in DOMAIN mem :
                    f \notin tables \cup {PageOf(pagemap)} => mem'[f] = mem[f]]_vars

\* the first map_page of an address under an empty PML4 entry built the three
\* tables of its walk
C32_Witness ==
    /\ last.op = "map_page" /\ ~panicked /\ ops = 1
    /\ last.arg[1] = VA(1, 0, 0, 0)
    /\ Cardinality(initFree \ FreeFrames(bitmap)) = 4
    /\ Lookup(mem, pagemap, VA(1, 0, 0, 0)) = Some(last.arg[2] \cup last.arg[3])

----------------------------------------------------------------------------
(* Properties of VirtualMemManager::new *)

----------------------------------------------------------------------------
(* Properties of the object round trip *)

\* C34: alloc_obj returning p followed at once by free_obj(p) leaves every
\* Slab of the Cache (bitmap and free_objs) as it was before the allocation,
\* and the next alloc_obj returns p again.
C34_ObjectRoundTrip ==
    /\ rt.pc = "freed" => (~panicked /\ slabs = rt.before)
    /\ rt.pc = "again" => (~panicked /\ rt.q = rt.p)

\* the same with room in the Cache when the caller allocates
C34_RoundTripWithRoom ==
    (rt.pc \in {"freed", "again"} /\ FindSlab(rt.before, cache.slabs) # Null) =>
        /\ ~panicked
        /\ rt.pc = "freed" => slabs = rt.before
        /\ rt.pc = "again" => rt.q = rt.p

\* the round trip went through a slot in the middle of the Slab
C34_RoundTripDone ==
    /\ rt.pc = "again" /\ ~panicked /\ frees = 1 /\ Len(held) = 255
    /\ rt.q = rt.p /\ rt.p = slabs[1].data

----------------------------------------------------------------------------
(* Properties of the objects held *)

\* the object at ptr lies inside the pages of Slab i of the Cache
ObjectInSlab(i, ptr) ==
    /\ slabs[i].data - SlabHeaderSize <= ptr
    /\ ptr + cache.object_size
            <= slabs[i].data - SlabHeaderSize + cache.pages_per_slab * PAGE_SIZE
\* the objects at the positions ps of `held` are apart and inside a Slab
ObjectsApart(ps) ==
    /\ \A j \in ps, k \in ps :
            j # k => \/ held[j] + cache.object_size <= held[k]
                     \/ held[k] + cache.object_size <= held[j]
    /\ \A j \in ps : \E i \in 1..Len(slabs) : ObjectInSlab(i, held[j])

\* C35: with every pointer freed at most once, the objects held never
\* overlap: two of them are at least object_size apart, and each lies wholly
\* inside the pages of a Slab of the Cache.
C35_LiveObjectsApart == ObjectsApart(1..Len(held))

\* the same for the objects that came from a Slab with a free slot
C35_SlotsApart == ObjectsApart({j \in 1..Len(held) : held[j] \notin WildPointers})

\* the Slab is full and one object was given back and its slot taken again
C35_SlabFullAgain ==
    /\ Len(held) = OBJS_PER_SLAB /\ frees = 1 /\ ~panicked
    /\ slabs[1].free_objs = 0
    /\ held[OBJS_PER_SLAB] = slabs[1].data

----------------------------------------------------------------------------
(* Properties of interleaved object allocations *)

ObjReturned(c) == ctx[c].pc = "done"
ObjReturnedPtr(c) == Unwrap(ctx[c].ret)

\* C36: alloc_obj never returns the null pointer: what it returns is a slot
\* of a Slab of the Cache, also for a call that an interrupt handler
\* allocating from the same Cache preempted between the free_objs check and
\* the scan of the bitmap; and two interleaved calls return different slots.
C36_NeverNullNeverShared ==
    /\ \A c \in Contexts :
        ObjReturned(c) =>
            /\ ObjReturnedPtr(c) # Null
            /\ \E i \in 1..Len(slabs) :
                /\ ObjectInSlab(i, ObjReturnedPtr(c))
                /\ (ObjReturnedPtr(c) - slabs[i].data) % cache.object_size = 0
    /\ (\A c \in Contexts : ObjReturned(c)) => ObjReturnedPtr("task") # ObjReturnedPtr("irq")

\* two calls that both returned a slot got different slots
C36_SlotsDiffer ==
    (\A c \in Contexts : ObjReturned(c) /\ ObjReturnedPtr(c) \notin WildPointers)
        => ObjReturnedPtr("task") # ObjReturnedPtr("irq")

----------------------------------------------------------------------------
(* Properties of the life of a Bitmap *)

BitmapFrames(b) == FramesOf(FreePage(b.data), div_ceil(b.size, PAGE_SIZE))

\* C37: a Bitmap made by Bitmap::new holds ceil(size / 4096) frames taken
\* from the allocator and its drop gives back exactly those; a Bitmap made
\* by from_raw_ptr takes no frame when made and its drop frees no frame.
C37_OwnedFreesBorrowedDoesNot ==
    /\ (rt.pc = "held" /\ rt.owned) =>
          /\ FreeFrames(rt.before) \ FreeFrames(bitmap) = BitmapFrames(Unwrap(rt.bm))
          /\ FreeFrames(bitmap) \subseteq FreeFrames(rt.before)
          /\ Cardinality(BitmapFrames(Unwrap(rt.bm))) = div_ceil(Unwrap(rt.bm).size, PAGE_SIZE)
    /\ (rt.pc = "held" /\ ~rt.owned) => bitmap = rt.before
    /\ rt.pc = "dropped" => (~panicked /\ bitmap = rt.before)

\* the half of C37 about Bitmap::new
C37_OwnedReturnsItsFrames ==
    rt.owned =>
        /\ rt.pc = "held" =>
              /\ FreeFrames(rt.before) \ FreeFrames(bitmap) = BitmapFrames(Unwrap(rt.bm))
              /\ FreeFrames(bitmap) \subseteq FreeFrames(rt.before)
        /\ rt.pc = "dropped" => (~panicked /\ bitmap = rt.before)

C37_OwnedDropped ==
    /\ rt.pc = "dropped" /\ rt.owned
    /\ Unwrap(rt.bm).size = PAGE_SIZE + 1
    /\ FreePage(Unwrap(rt.bm).data) = 1

----------------------------------------------------------------------------
(* Properties of PageFlags::from *)

\* C38: PageFlags::from(prot) has WRITABLE iff prot has WRITE, USERMODE iff
\* prot has READ, NX iff prot has no EXEC, never PRESENT nor MMAPED, and is
\* NX alone for the empty prot.
C38_ProtTranslatedExactly ==
    \A i \in 1..Len(rt.calls) :
        LET prot == rt.calls[i].prot
            flags == rt.calls[i].flags
        IN  /\ Contains(flags, WRITABLE) <=> Contains(prot, PROT_WRITE)
            /\ Contains(flags, USERMODE) <=> Contains(prot, PROT_READ)
            /\ Contains(flags, NX) <=> ~Contains(prot, PROT_EXEC)
            /\ ~Contains(flags, PRESENT)
            /\ ~Contains(flags, MMAPED)
            /\ prot = PROT_NONE => flags = NX

\* what every call returns
C38_AlwaysNX == \A i \in 1..Len(rt.calls) : rt.calls[i].flags = NX

----------------------------------------------------------------------------
(* Properties of the scheduler *)

\* the threads of {running_thread} and the runnable queue, as a bag
Scheduled(s) ==
    LET all == s.runnable \o s.running
    IN  [t \in Threads |-> Cardinality({i \in DOMAIN all : all[i] = t})]

\* one reschedule as the round robin describes it
RoundRobin(s, t, regs) ==
    IF s.runnable # <<>>
    THEN /\ t.running = Some(Head(s.runnable))
         /\ t.runnable = Tail(s.runnable) \o s.running
         /\ IsSome(s.running) => t.regs[Unwrap(s.running)] = regs
    ELSE t.running = s.running /\ t.runnable = s.runnable

\* C39: every reschedule keeps the bag of threads in {running_thread} and
\* the runnable queue, with no thread in it twice; with a non-empty queue
\* the front thread becomes the running one and the thread that ran goes to
\* the back with the interrupted registers saved; with an empty queue the
\* running thread and the queue stay as they are.
C39_RoundRobinKeepsThreads ==
    [][last'.op = "reschedule" =>
          /\ Scheduled(rt') = Scheduled(rt)
          /\ \A t \in Threads : Scheduled(rt')[t] <= 1
          /\ RoundRobin(rt, rt', Unwrap(last'.arg))]_vars

\* the same for the reschedules that do not panic
C39_RoundRobinUnlessPanic ==
    [][(last'.op = "reschedule" /\ ~panicked') =>
          /\ Scheduled(rt') = Scheduled(rt)
          /\ \A t \in Threads : Scheduled(rt')[t] <= 1
          /\ RoundRobin(rt, rt', Unwrap(last'.arg))]_vars

\* a reschedule with a thread running and a thread queued has switched
C39_Switched ==
    /\ last.op = "reschedule" /\ ~panicked
    /\ rt.running = Some(2) /\ rt.runnable = <<3, 1>> /\ rt.regs[1] = 2
====
